---- MODULE Spec2Model ----
(***************************************************************************)
(* KaziWiz policy deliberation backend: the session service                *)
(* (backend/app/services/policy_service.py), the deliberation orchestrator *)
(* (backend/app/services/integrated_deliberation.py) and the output        *)
(* validator (backend/app/services/output_validator.py).                   *)
(*                                                                         *)
(* Texts are sequences of one-character strings, so that substring tests,  *)
(* case folding and slicing are computed as Python computes them.          *)
(***************************************************************************)
EXTENDS Integers, Sequences, FiniteSets, TLC

(***************************************************************************)
(* Bounds of the model.                                                    *)
(***************************************************************************)
\* Domain-expert entries of the agent catalog that are kept (the catalog
\* order is preserved; the three orchestration entries are always kept).
NumExperts == 2

\* Sessions that create_session may create.
MaxSessions == 2

\* Tasks that start_deliberation may launch in total.
MaxRuns == 2

\* The arguments in the debate history when a context is built.
MaxHistory == 7

\* The clients connected to the Socket.IO server.
MaxClients == 1

\* The exceptions the event emitter raises in one run of the model.
MaxEmitFailures == 1

(***************************************************************************)
(* Characters and strings.                                                 *)
(***************************************************************************)
UpperLetters ==
    <<"A","B","C","D","E","F","G","H","I","J","K","L","M",
      "N","O","P","Q","R","S","T","U","V","W","X","Y","Z">>

LowerLetters ==
    <<"a","b","c","d","e","f","g","h","i","j","k","l","m",
      "n","o","p","q","r","s","t","u","v","w","x","y","z">>

Range(f) == {f[i] : i \in DOMAIN f}

Min(a, b) == IF a <= b THEN a ELSE b

LetterIndex(letters, c) == CHOOSE i \in DOMAIN letters : letters[i] = c

UpperSet == Range(UpperLetters)

LowerSet == Range(LowerLetters)

ToLower == [c \in UpperSet |-> LowerLetters[LetterIndex(UpperLetters, c)]]

ToUpper == [c \in LowerSet |-> UpperLetters[LetterIndex(LowerLetters, c)]]

\* str.lower() on one character.
LowerChar(c) == IF c \in UpperSet THEN ToLower[c] ELSE c

\* str.upper() on one character.
UpperChar(c) == IF c \in LowerSet THEN ToUpper[c] ELSE c

\* str.lower()
Lower(s) == [i \in DOMAIN s |-> LowerChar(s[i])]

\* str.upper()
Upper(s) == [i \in DOMAIN s |-> UpperChar(s[i])]

\* s[:n]
Truncate(s, n) == SubSeq(s, 1, Min(n, Len(s)))

\* kw in s
Contains(s, kw) ==
    \E i \in 1..(Len(s) - Len(kw) + 1) : SubSeq(s, i, i + Len(kw) - 1) = kw

\* sum(1 for kw in kws if kw in s)
CountKeywords(kws, s) == Cardinality({i \in DOMAIN kws : Contains(s, kws[i])})

\* str.replace(old, new) for single characters.
ReplaceChar(s, old, new) == [i \in DOMAIN s |-> IF s[i] = old THEN new ELSE s[i]]

\* str.title(): a letter that follows a non-letter is upper-cased, every
\* other letter is lower-cased.
IsLetter(c) == c \in UpperSet \/ c \in LowerSet

Title(s) ==
    [i \in DOMAIN s |->
        IF i = 1 \/ ~IsLetter(s[i - 1]) THEN UpperChar(s[i]) ELSE LowerChar(s[i])]

(***************************************************************************)
(* The agent catalog.                                                      *)
(***************************************************************************)
\* The ids of DecisionAgentSystem.get_all_agent_definitions, in its order.
get_all_agent_definitions ==
    << "problem_statement", "turn_management", "voting_announcement",
       "economic", "social", "geospatial", "income", "resource", "legal",
       "economic_macro", "economic_micro", "policy_impact",
       "trade_investment", "healthcare_welfare", "education_welfare",
       "housing_welfare", "geographic_poverty", "demographic_policy",
       "resource_access", "inequality_causes", "income_redistribution",
       "inequality_impact", "resource_optimization", "realtime_allocation",
       "system_efficiency", "policy_monitoring", "adaptive_policy" >>

\* The catalog the model runs with.
AgentCatalog == SubSeq(get_all_agent_definitions, 1, 3 + NumExperts)

\* The keys of initialize_agents' method_map; every value names a method
\* that DecisionAgentSystem has.
method_map == Range(get_all_agent_definitions)

OrchestrationIds == {"problem_statement", "turn_management", "voting_announcement"}

\* phase_research's research_groups, flattened in iteration order.
research_groups ==
    << "economic", "economic_macro", "economic_micro", "policy_impact",
       "trade_investment", "social", "healthcare_welfare",
       "education_welfare", "housing_welfare", "geospatial",
       "geographic_poverty", "demographic_policy", "resource_access",
       "income", "inequality_causes", "income_redistribution",
       "inequality_impact", "resource", "resource_optimization",
       "realtime_allocation", "system_efficiency", "policy_monitoring",
       "adaptive_policy", "legal" >>

\* The spelling of an agent id.
AgentIdChars(a) ==
    CASE a = "problem_statement" ->
           <<"p","r","o","b","l","e","m","_","s","t","a","t","e","m","e","n","t">>
      [] a = "turn_management" ->
           <<"t","u","r","n","_","m","a","n","a","g","e","m","e","n","t">>
      [] a = "voting_announcement" ->
           <<"v","o","t","i","n","g","_","a","n","n","o","u","n","c","e","m","e","n","t">>
      [] a = "economic" -> <<"e","c","o","n","o","m","i","c">>
      [] a = "social" -> <<"s","o","c","i","a","l">>
      [] a = "geospatial" -> <<"g","e","o","s","p","a","t","i","a","l">>
      [] a = "income" -> <<"i","n","c","o","m","e">>
      [] a = "resource" -> <<"r","e","s","o","u","r","c","e">>
      [] a = "legal" -> <<"l","e","g","a","l">>
      [] a = "economic_macro" ->
           <<"e","c","o","n","o","m","i","c","_","m","a","c","r","o">>
      [] a = "economic_micro" ->
           <<"e","c","o","n","o","m","i","c","_","m","i","c","r","o">>
      [] a = "policy_impact" ->
           <<"p","o","l","i","c","y","_","i","m","p","a","c","t">>
      [] a = "trade_investment" ->
           <<"t","r","a","d","e","_","i","n","v","e","s","t","m","e","n","t">>
      [] a = "healthcare_welfare" ->
           <<"h","e","a","l","t","h","c","a","r","e","_","w","e","l","f","a","r","e">>
      [] a = "education_welfare" ->
           <<"e","d","u","c","a","t","i","o","n","_","w","e","l","f","a","r","e">>
      [] a = "housing_welfare" ->
           <<"h","o","u","s","i","n","g","_","w","e","l","f","a","r","e">>
      [] a = "geographic_poverty" ->
           <<"g","e","o","g","r","a","p","h","i","c","_","p","o","v","e","r","t","y">>
      [] a = "demographic_policy" ->
           <<"d","e","m","o","g","r","a","p","h","i","c","_","p","o","l","i","c","y">>
      [] a = "resource_access" ->
           <<"r","e","s","o","u","r","c","e","_","a","c","c","e","s","s">>
      [] a = "inequality_causes" ->
           <<"i","n","e","q","u","a","l","i","t","y","_","c","a","u","s","e","s">>
      [] a = "income_redistribution" ->
           <<"i","n","c","o","m","e","_","r","e","d","i","s","t","r","i","b","u","t","i","o","n">>
      [] a = "inequality_impact" ->
           <<"i","n","e","q","u","a","l","i","t","y","_","i","m","p","a","c","t">>
      [] a = "resource_optimization" ->
           <<"r","e","s","o","u","r","c","e","_","o","p","t","i","m","i","z","a","t","i","o","n">>
      [] a = "realtime_allocation" ->
           <<"r","e","a","l","t","i","m","e","_","a","l","l","o","c","a","t","i","o","n">>
      [] a = "system_efficiency" ->
           <<"s","y","s","t","e","m","_","e","f","f","i","c","i","e","n","c","y">>
      [] a = "policy_monitoring" ->
           <<"p","o","l","i","c","y","_","m","o","n","i","t","o","r","i","n","g">>
      [] a = "adaptive_policy" ->
           <<"a","d","a","p","t","i","v","e","_","p","o","l","i","c","y">>

\* agent_id.replace('_', ' ').title()
AgentName(a) == Title(ReplaceChar(AgentIdChars(a), "_", " "))

(***************************************************************************)
(* OutputValidator (output_validator.py).                                  *)
(***************************************************************************)
\* The backquote character (a string of the module cannot hold it).
Backquote == "BACKQUOTE"

\* The three backquotes that open and close a fenced code block.
Fence == <<Backquote, Backquote, Backquote>>

Digits == {"0","1","2","3","4","5","6","7","8","9"}

\* \w, \s and \d of Python's re, over the characters of the model; the
\* letters are those of the lower case because the patterns are searched
\* with re.IGNORECASE and the text is folded before it is compared.
WordChars == LowerSet \cup Digits \cup {"_"}

SpaceChars == {" ", "\t", "\n", "\r", "\f"}

\* One item of a pattern: a set of characters and a quantifier.
One(cs) == <<[cs |-> cs, q |-> "1"]>>

Star(cs) == <<[cs |-> cs, q |-> "*"]>>

Plus(cs) == One(cs) \o Star(cs)

Lit(s) == [i \in DOMAIN s |-> [cs |-> {LowerChar(s[i])}, q |-> "1"]]

\* Whether items k.. of pat match s from position i on.
RECURSIVE MatchAt(_, _, _, _)
MatchAt(pat, k, s, i) ==
    IF k > Len(pat) THEN TRUE
    ELSE LET hit == i <= Len(s) /\ LowerChar(s[i]) \in pat[k].cs
         IN  IF pat[k].q = "1"
             THEN hit /\ MatchAt(pat, k + 1, s, i + 1)
             ELSE MatchAt(pat, k + 1, s, i) \/ (hit /\ MatchAt(pat, k, s, i + 1))

\* re.search(pattern, s, re.IGNORECASE | re.MULTILINE) for a pattern given
\* as the set of its alternatives.
Search(alts, s) ==
    \E a \in DOMAIN alts : \E i \in 1..(Len(s) + 1) : MatchAt(alts[a], 1, s, i)

CODE_PATTERNS ==
    << \* three backquotes, [\w]*, \n
       << Lit(Fence) \o Star(WordChars) \o Lit(<<"\n">>) >>,
       \* #include\s+<
       << Lit(<<"#","i","n","c","l","u","d","e">>) \o Plus(SpaceChars) \o Lit(<<"<">>) >>,
       \* import\s+\w+\s+from
       << Lit(<<"i","m","p","o","r","t">>) \o Plus(SpaceChars) \o Plus(WordChars)
            \o Plus(SpaceChars) \o Lit(<<"f","r","o","m">>) >>,
       \* def\s+\w+\s*\(
       << Lit(<<"d","e","f">>) \o Plus(SpaceChars) \o Plus(WordChars)
            \o Star(SpaceChars) \o Lit(<<"(">>) >>,
       \* class\s+\w+\s*[:\(]
       << Lit(<<"c","l","a","s","s">>) \o Plus(SpaceChars) \o Plus(WordChars)
            \o Star(SpaceChars) \o One({":", "("}) >>,
       \* function\s+\w+\s*\(
       << Lit(<<"f","u","n","c","t","i","o","n">>) \o Plus(SpaceChars)
            \o Plus(WordChars) \o Star(SpaceChars) \o Lit(<<"(">>) >>,
       \* <\?php
       << Lit(<<"<","?","p","h","p">>) >>,
       \* <!DOCTYPE
       << Lit(<<"<","!","D","O","C","T","Y","P","E">>) >>,
       \* <script
       << Lit(<<"<","s","c","r","i","p","t">>) >>,
       \* glsl|shader|vertex|fragment
       << Lit(<<"g","l","s","l">>),
          Lit(<<"s","h","a","d","e","r">>),
          Lit(<<"v","e","r","t","e","x">>),
          Lit(<<"f","r","a","g","m","e","n","t">>) >>,
       \* layout\s*\(location
       << Lit(<<"l","a","y","o","u","t">>) \o Star(SpaceChars)
            \o Lit(<<"(","l","o","c","a","t","i","o","n">>) >>,
       \* gl_Position
       << Lit(<<"g","l","_","P","o","s","i","t","i","o","n">>) >>,
       \* #version\s+\d+
       << Lit(<<"#","v","e","r","s","i","o","n">>) \o Plus(SpaceChars) \o Plus(Digits) >>,
       \* int\s+main\s*\(
       << Lit(<<"i","n","t">>) \o Plus(SpaceChars) \o Lit(<<"m","a","i","n">>)
            \o Star(SpaceChars) \o Lit(<<"(">>) >>,
       \* public\s+static\s+void\s+main
       << Lit(<<"p","u","b","l","i","c">>) \o Plus(SpaceChars)
            \o Lit(<<"s","t","a","t","i","c">>) \o Plus(SpaceChars)
            \o Lit(<<"v","o","i","d">>) \o Plus(SpaceChars)
            \o Lit(<<"m","a","i","n">>) >>,
       \* ---\nlayout:
       << Lit(<<"-","-","-","\n","l","a","y","o","u","t",":">>) >>,
       \* \$\$\s*\\begin\{
       << Lit(<<"$","$">>) \o Star(SpaceChars)
            \o Lit(<<"\\","b","e","g","i","n","{">>) >> >>

CODE_KEYWORDS ==
    << <<"j","u","p","y","t","e","r">>,
       <<"n","o","t","e","b","o","o","k">>,
       <<"a","l","g","o","r","i","t","h","m">>,
       <<"i","m","p","l","e","m","e","n","t","a","t","i","o","n">>,
       <<"c","o","m","p","i","l","e">>,
       <<"r","u","n","t","i","m","e">>,
       <<"b","i","n","a","r","y">>,
       <<"p","o","i","n","t","e","r">>,
       <<"m","a","l","l","o","c">>,
       <<"v","e","r","t","e","x">>,
       <<"s","h","a","d","e","r">>,
       <<"r","e","n","d","e","r","i","n","g">>,
       <<"o","p","e","n","g","l">>,
       <<"w","e","b","g","l">>,
       <<"a","r","r","a","y">>,
       <<"b","u","f","f","e","r">>,
       <<"m","a","t","r","i","x"," ","m","u","l","t","i","p","l","i","c","a","t","i","o","n">>,
       <<"g","p","u">>,
       <<"t","e","n","s","o","r","f","l","o","w">>,
       <<"p","y","t","o","r","c","h">>,
       <<"n","e","u","r","a","l"," ","n","e","t","w","o","r","k"," ","a","r","c","h","i","t","e","c","t","u","r","e">>,
       <<"d","o","c","k","e","r">>,
       <<"k","u","b","e","r","n","e","t","e","s">>,
       <<"a","p","i"," ","e","n","d","p","o","i","n","t">>,
       <<"s","q","l"," ","q","u","e","r","y">> >>

policy_keywords ==
    << <<"p","o","l","i","c","y">>,
       <<"c","a","r","b","o","n"," ","t","a","x">>,
       <<"e","c","o","n","o","m","i","c">>,
       <<"f","i","s","c","a","l">>,
       <<"i","m","p","a","c","t">>,
       <<"g","o","v","e","r","n","m","e","n","t">>,
       <<"r","e","v","e","n","u","e">>,
       <<"e","m","i","s","s","i","o","n">>,
       <<"c","l","i","m","a","t","e">>,
       <<"e","n","v","i","r","o","n","m","e","n","t">>,
       <<"s","t","a","k","e","h","o","l","d","e","r">>,
       <<"i","m","p","l","e","m","e","n","t","a","t","i","o","n">>,
       <<"a","n","a","l","y","s","i","s">>,
       <<"e","v","i","d","e","n","c","e">> >>

\* len(output) < 50 rejects.
MinOutputLen == 50

\* code_keyword_count >= 3 rejects.
MaxCodeKeywords == 3

\* policy_keyword_count < 2 rejects.
MinPolicyKeywords == 2

\* A variant of TooShort that lets a text of MinOutputLen - 1 characters
\* through.
TooShortByTwo(output) == output = <<>> \/ Len(output) < MinOutputLen - 1

\* not output or len(output) < 50.
TooShort(output) == output = <<>> \/ Len(output) < MinOutputLen

\* A variant of is_valid_policy_output that does not ask for policy
\* keywords.
is_valid_policy_output_any_topic(output) ==
    IF TooShort(output)
    THEN [is_valid |-> FALSE, reason |-> "Output too short"]
    ELSE IF \E p \in DOMAIN CODE_PATTERNS : Search(CODE_PATTERNS[p], output)
    THEN [is_valid |-> FALSE, reason |-> "Contains code pattern"]
    ELSE IF CountKeywords(CODE_KEYWORDS, Lower(output)) >= MaxCodeKeywords
    THEN [is_valid |-> FALSE, reason |-> "Contains too many code keywords"]
    ELSE [is_valid |-> TRUE, reason |-> "Valid policy analysis"]

\* OutputValidator.is_valid_policy_output: (is_valid, reason); the reason
\* is the message without the pattern or count it interpolates.
is_valid_policy_output(output) ==
    IF TooShort(output)
    THEN [is_valid |-> FALSE, reason |-> "Output too short"]
    ELSE IF \E p \in DOMAIN CODE_PATTERNS : Search(CODE_PATTERNS[p], output)
    THEN [is_valid |-> FALSE, reason |-> "Contains code pattern"]
    ELSE IF CountKeywords(CODE_KEYWORDS, Lower(output)) >= MaxCodeKeywords
    THEN [is_valid |-> FALSE, reason |-> "Contains too many code keywords"]
    ELSE IF CountKeywords(policy_keywords, Lower(output)) < MinPolicyKeywords
    THEN [is_valid |-> FALSE, reason |-> "Lacks policy-related content"]
    ELSE [is_valid |-> TRUE, reason |-> "Valid policy analysis"]

\* The least element of a non-empty set of integers.
Least(S) == CHOOSE k \in S : \A h \in S : k <= h

\* The least k >= from with s[k..] starting with lit, or 0.
FindFrom(s, lit, from) ==
    LET hits == {k \in from..(Len(s) - Len(lit) + 1) :
                    SubSeq(s, k, k + Len(lit) - 1) = lit}
    IN  IF hits = {} THEN 0 ELSE Least(hits)

StartsAt(s, lit, i) ==
    i + Len(lit) - 1 <= Len(s) /\ SubSeq(s, i, i + Len(lit) - 1) = lit

\* The first position >= i of s that holds no character of cs.
SkipChars(s, cs, i) ==
    LET stops == {j \in i..Len(s) : s[j] \notin cs}
    IN  IF stops = {} THEN Len(s) + 1 ELSE Least(stops)

\* The last position of the match, at position i, of one of the patterns
\* that extract_policy_content deletes; 0 when it does not match there.
MatchEnd(kind, s, i) ==
    CASE kind = "fence" ->
            \* three backquotes, [\w]*, \n, .*?, three backquotes  (re.DOTALL)
            IF ~StartsAt(s, Fence, i) THEN 0
            ELSE LET j == SkipChars(s, WordChars \cup UpperSet, i + 3)
                 IN  IF ~StartsAt(s, <<"\n">>, j) THEN 0
                     ELSE LET k == FindFrom(s, Fence, j + 1)
                          IN  IF k = 0 THEN 0 ELSE k + 2
      [] kind = "tag" ->
            \* <[^>]+>
            IF ~StartsAt(s, <<"<">>, i) THEN 0
            ELSE LET j == FindFrom(s, <<">">>, i + 1)
                 IN  IF j >= i + 2 THEN j ELSE 0
      [] kind = "math" ->
            \* \$\$.*?\$\$  (re.DOTALL)
            IF ~StartsAt(s, <<"$","$">>, i) THEN 0
            ELSE LET k == FindFrom(s, <<"$","$">>, i + 2)
                 IN  IF k = 0 THEN 0 ELSE k + 1
      [] kind = "frontmatter" ->
            \* ^---.*?---  (re.DOTALL | re.MULTILINE)
            IF ~((i = 1 \/ s[i - 1] = "\n") /\ StartsAt(s, <<"-","-","-">>, i))
            THEN 0
            ELSE LET k == FindFrom(s, <<"-","-","-">>, i + 3)
                 IN  IF k = 0 THEN 0 ELSE k + 2

\* re.sub(pattern, '', s) from position i on: the matches are found from
\* left to right and do not overlap.
RECURSIVE RemoveFrom(_, _, _)
RemoveFrom(kind, s, i) ==
    LET starts == {k \in i..Len(s) : MatchEnd(kind, s, k) > 0}
    IN  IF starts = {} THEN SubSeq(s, i, Len(s))
        ELSE LET m == Least(starts)
             IN  SubSeq(s, i, m - 1) \o RemoveFrom(kind, s, MatchEnd(kind, s, m) + 1)

\* re.sub(r'\n{3,}', '\n\n', s) from position i on.
RECURSIVE CollapseNewlines(_, _)
CollapseNewlines(s, i) ==
    LET starts == {k \in i..Len(s) : StartsAt(s, <<"\n", "\n", "\n">>, k)}
    IN  IF starts = {} THEN SubSeq(s, i, Len(s))
        ELSE LET m == Least(starts)
             IN  SubSeq(s, i, m - 1) \o <<"\n", "\n">>
                    \o CollapseNewlines(s, SkipChars(s, {"\n"}, m))

\* str.strip()
Strip(s) ==
    LET keep == {i \in DOMAIN s : s[i] \notin SpaceChars}
    IN  IF keep = {} THEN <<>>
        ELSE SubSeq(s, CHOOSE i \in keep : \A k \in keep : i <= k,
                       CHOOSE i \in keep : \A k \in keep : i >= k)

\* OutputValidator.extract_policy_content
extract_policy_content(output) ==
    LET a == RemoveFrom("fence", output, 1)
        b == RemoveFrom("tag", a, 1)
        c == RemoveFrom("math", b, 1)
        d == RemoveFrom("frontmatter", c, 1)
        e == CollapseNewlines(d, 1)
    IN  Strip(e)

\* OutputValidator.create_fallback_response: the title line and the
\* position line of the template; the numbered paragraphs that follow in
\* the template are fixed prose around the same topic and are left out.
create_fallback_response(agent_role, policy_topic) ==
    <<"\n", "*", "*">> \o agent_role \o <<" ","A","n","a","l","y","s","i","s",":"," ">>
        \o policy_topic \o <<"*", "*", "\n", "\n">>
        \o <<"*","*","P","o","s","i","t","i","o","n",":","*","*"," ","C","O","N","D","I","T","I","O","N","A","L"," ","S","U","P","P","O","R","T">> \o <<"\n">>

(***************************************************************************)
(* What the outside world supplies: the text of a request and the strings  *)
(* that crew.kickoff returns.                                              *)
(***************************************************************************)
TxtPolicy ==
    <<"<","b",">","P","o","l","i","c","y","<","/","b",">"," ","a","n","a","l",
      "y","s","i","s",":"," ","t","h","e"," ","f","i","s","c","a","l"," ","i",
      "m","p","a","c","t"," ","o","n"," ","g","o","v","e","r","n","m","e","n",
      "t"," ","r","e","v","e","n","u","e",".">>

TxtCode ==
    <<Backquote,Backquote,Backquote,"p","y","t","h","o","n","\n","p","r","i","n","t","(","'",
      "p","o","l","i","c","y"," ","i","m","p","a","c","t","'",")","\n",Backquote,
      Backquote,Backquote,"\n","T","h","e"," ","e","c","o","n","o","m","i","c"," ","a",
      "n","a","l","y","s","i","s"," ","f","o","l","l","o","w","s",".">>

TxtAgree ==
    <<"I"," ","a","g","r","e","e",".">>

TxtHowever ==
    <<"H","o","w","e","v","e","r",","," ","n","o",".">>

TxtTorn ==
    <<"I"," ","s","u","p","p","o","r","t"," ","a","n","d"," ","c","o","n","c",
      "u","r",","," ","b","u","t"," ","h","o","w","e","v","e","r"," ","o","p",
      "p","o","s","e",".">>

TxtDisagree ==
    <<"I"," ","d","i","s","a","g","r","e","e",".">>

TxtNeither ==
    <<"N","o"," ","c","o","m","m","e","n","t",".">>

TxtFullSupport ==
    <<"F","U","L","L"," ","S","U","P","P","O","R","T",","," ","A","L","I",
      "G","N","E","D">>

TxtVote ==
    <<"A","P","P","R","O","V","E">>

TxtApproved ==
    <<"D","e","c","i","s","i","o","n",":"," ","A","P","P","R","O","V","E",
      "D">>

TxtRejected ==
    <<"T","h","e"," ","p","o","l","i","c","y"," ","i","s"," ","R","e","j","e",
      "c","t","e","d">>

TxtMixed ==
    <<"N","o"," ","m","a","j","o","r","i","t","y">>

TxtRejectedTally ==
    <<"R","E","J","E","C","T","E","D",":"," ","1"," ","a","p","p","r","o",
      "v","e",","," ","2"," ","r","e","j","e","c","t">>

TxtWeApprove ==
    <<"w","e"," ","a","p","p","r","o","v","e">>

TxtToReject ==
    <<"M","o","t","i","o","n"," ","t","o"," ","r","e","j","e","c","t">>

TxtNearMiss ==
    <<"A","p","p","r","o","v"," ","o","r"," ","r","e","j","e","c">>

TxtTopic ==
    <<"C","o","n","g","e","s","t","i","o","n"," ","T","a","x">>

TxtErr ==
    <<"L","L","M"," ","t","i","m","e","o","u","t">>

TxtProblemStatementExpert ==
    <<"P","r","o","b","l","e","m"," ","S","t","a","t","e","m","e","n","t"," ",
      "E","x","p","e","r","t">>

TxtAPPROVED ==
    <<"A","P","P","R","O","V","E","D">>

TxtAPPROVE ==
    <<"A","P","P","R","O","V","E">>

TxtREJECTED ==
    <<"R","E","J","E","C","T","E","D">>

TxtREJECT ==
    <<"R","E","J","E","C","T">>

\* The strings crew.kickoff returns to a problem-statement or research
\* task: one the validator accepts, one it rejects.
PolicyOutputs == {TxtPolicy, TxtCode}

\* The arguments crew.kickoff returns in the debate: all agreement, all
\* disagreement, and two agreement keywords against three of disagreement.
DebateOutputs == {TxtAgree, TxtHowever, TxtTorn}

\* The arguments of a run that is not about the debate.
RunDebateOutputs == {TxtAgree, TxtHowever}

\* The votes crew.kickoff returns.
VoteOutputs == {TxtVote}

\* The announcements the voting coordinator returns: the labels in upper,
\* mixed and lower case, a rejection that tallies the votes to approve, and
\* texts with neither word.
AnnouncementOutputs ==
    {TxtApproved, TxtRejected, TxtMixed, TxtRejectedTally, TxtWeApprove,
     TxtToReject, TxtNearMiss}

\* The outputs of the runs of the service specification, one per phase.
ServicePolicyOutputs == {TxtPolicy}

ServiceDebateOutputs == {TxtAgree}

ServiceAnnouncementOutputs == {TxtApproved}

\* policy_data of a create request.
Topics == {TxtTopic}

\* str(e) of the exception an agent invocation raises.
ErrorMessages == {TxtErr}

\* str(e) of the KeyError that agents[...] raises for a missing agent.
KeyErrorMessage(a) == <<"'">> \o AgentIdChars(a) \o <<"'">>

(***************************************************************************)
(* The consensus heuristic of the debate phase.                            *)
(***************************************************************************)
agreement_keywords ==
    << <<"a","g","r","e","e">>,
       <<"s","u","p","p","o","r","t">>,
       <<"c","o","n","c","u","r">>,
       <<"c","o","n","s","e","n","s","u","s">>,
       <<"a","l","i","g","n","e","d">>,
       <<"c","o","r","r","e","c","t">> >>

disagreement_keywords ==
    << <<"d","i","s","a","g","r","e","e">>,
       <<"o","p","p","o","s","e">>,
       <<"a","g","a","i","n","s","t">>,
       <<"h","o","w","e","v","e","r">>,
       <<"b","u","t">>,
       <<"c","o","n","t","r","a","r","y">> >>

\* if consensus_level >= 70
ConsensusThreshold == 70

\* max_rounds = 3
max_rounds == 3

\* The score of one argument, (agreement / (agreement + disagreement)) * 100,
\* kept as the exact fraction <<numerator, denominator>>; an argument with
\* no keyword adds nothing to total_score.
ArgumentScore(argument) ==
    LET arg_lower == Lower(argument)
        agreement_count == CountKeywords(agreement_keywords, arg_lower)
        disagreement_count == CountKeywords(disagreement_keywords, arg_lower)
    IN  IF agreement_count + disagreement_count > 0
        THEN <<agreement_count * 100, agreement_count + disagreement_count>>
        ELSE <<0, 1>>

\* s repeated n times.
Repeated(s, n) == [i \in 1..(n * Len(s)) |-> s[((i - 1) % Len(s)) + 1]]

\* An argument of more than 300 characters.
TxtLongAgreement == Repeated(TxtAgree, 40)

\* The scores of the arguments the agents give, computed once.
DebateOutputScores ==
    [argument \in DebateOutputs \cup {TxtLongAgreement} |-> ArgumentScore(argument)]

\* total_score over the arguments with index in idx, as an exact fraction.
RECURSIVE TotalScore(_, _)
TotalScore(arguments, idx) ==
    IF idx = {} THEN <<0, 1>>
    ELSE LET i == CHOOSE i \in idx : TRUE
             x == IF arguments[i] \in DOMAIN DebateOutputScores
                  THEN DebateOutputScores[arguments[i]]
                  ELSE ArgumentScore(arguments[i])
             y == TotalScore(arguments, idx \ {i})
         IN  <<x[1] * y[2] + y[1] * x[2], x[2] * y[2]>>

\* A variant of _assess_consensus that returns the total of the scores,
\* neither averaged nor clamped.
_assess_consensus_total(arguments) ==
    LET total_score == TotalScore(arguments, DOMAIN arguments)
    IN  total_score[1] \div total_score[2]

\* IntegratedDeliberationSystem._assess_consensus, on the argument texts of
\* round_arguments in insertion order.
_assess_consensus(arguments) ==
    LET total_score == TotalScore(arguments, DOMAIN arguments)
        consensus_level ==
            IF Len(arguments) > 0
            THEN total_score[1] \div (total_score[2] * Len(arguments))
            ELSE 0
    IN  Min(IF consensus_level >= 0 THEN consensus_level ELSE 0, 100)

(***************************************************************************)
(* Python dictionaries: functions whose domain is the set of keys.         *)
(***************************************************************************)
EmptyDict == <<>>

\* d.get(k, default)
Get(d, k, default) == IF k \in DOMAIN d THEN d[k] ELSE default

\* d[k] = v
Put(d, k, v) == [x \in (DOMAIN d) \cup {k} |-> IF x = k THEN v ELSE d[x]]

\* The values of d for the keys of the sequence keys that d has, in order.
ValuesInOrder(d, keys) ==
    LET present == SelectSeq(keys, LAMBDA k : k \in DOMAIN d)
    IN  [i \in DOMAIN present |-> d[present[i]]]

(***************************************************************************)
(* State.                                                                  *)
(***************************************************************************)
VARIABLES
    \* PolicyService.active_sessions: session id -> PolicySession.
    active_sessions,
    \* The tasks asyncio.create_task(self._run_deliberation(...)) made, in
    \* creation order: each with its session, its position and the local
    \* variables of the phase it is in.
    runs,
    \* IntegratedDeliberationSystem.results and .agents of the one
    \* deliberation_system the service constructs.
    ds_results,
    ds_agents,
    \* For each key of ds_results, the session whose run wrote it last.
    results_owner,
    \* The events each run handed to emit_event, in order.
    events,
    \* The events the service itself emitted for each session.
    service_events,
    \* For each session, the agents and the phases that the events emitted
    \* to its room have started and not yet completed.
    open_agents,
    open_phases,
    \* The AutoPolicyDeliberationSystem of uagent_main.py and the kickoff
    \* made on it.
    uagent,
    \* A call of one of the functions that depend on their arguments alone,
    \* with its result once it has returned.
    call,
    \* The Socket.IO server sio of main.py: the rooms its clients have
    \* entered and what it has sent to each of them.
    sio

vars ==
    <<active_sessions, runs, ds_results, ds_agents, results_owner, events,
      service_events, open_agents, open_phases, uagent, call, sio>>

\* What a step of the backend service leaves alone, without and with the
\* Socket.IO server.
outside_service == <<uagent, call>>

outside_backend == <<uagent, call, sio>>

\* No kickoff has been made; no function is being called.
NoKickoff == [pc |-> "none"]

NoCall == [fn |-> "none"]

SessionIds == 1..MaxSessions

\* The sids of the clients connected to sio.
Clients == 1..MaxClients

\* session_id: str = None
None == 0

\* The room Socket.IO gives every client, named by its sid.
OwnRoom(c) == 0 - c

\* sio with its clients connected and nothing sent: for each client the
\* rooms it has entered and the messages it has received, for each session
\* the number of events sent to its room, and for each client and room the
\* value of that number when the client entered; the events for which the
\* emitter has raised, and whether an exception has left emit_event.
Connected ==
    [rooms |-> [c \in Clients |-> {OwnRoom(c)}],
     inbox |-> [c \in Clients |-> <<>>],
     emitted |-> [s \in SessionIds |-> 0],
     entered_at |-> [c \in Clients |-> EmptyDict],
     raised |-> <<>>,
     escaped |-> FALSE]

RunIds == DOMAIN runs

Ev(name, data) == [event |-> name, data |-> data]

\* PolicySession.results is either a dictionary of the session's own or a
\* reference to the dictionary IntegratedDeliberationSystem.results.
OwnResults(d) == [ref |-> "own", dict |-> d]

SharedResults == [ref |-> "deliberation_system.results", dict |-> EmptyDict]

\* What reading session.results gives.
SessionResults(s) ==
    IF active_sessions[s].results.ref = "own"
    THEN active_sessions[s].results.dict
    ELSE ds_results

\* The effect of a sequence of emitted events on the started and not yet
\* completed agents (phases) of a room.
RECURSIVE OpenAfter(_, _, _, _)
OpenAfter(open, chunk, started, completed) ==
    IF chunk = <<>> THEN open
    ELSE LET e == Head(chunk)
             key == IF started = "agent_started" THEN "agent_id" ELSE "phase"
             next == IF e.event = started THEN open \cup {e.data[key]}
                     ELSE IF e.event = completed THEN open \ {e.data[key]}
                     ELSE open
         IN  OpenAfter(next, Tail(chunk), started, completed)

\* IntegratedDeliberationSystem.emit_event for each event of chunk, in
\* order, by run r: sio.emit to the room of the run's session.
Emit(r, chunk) ==
    LET s == runs[r].session
    IN  /\ events' = [events EXCEPT ![r] = @ \o chunk]
        /\ open_agents' =
              [open_agents EXCEPT
                  ![s] = OpenAfter(@, chunk, "agent_started", "agent_completed")]
        /\ open_phases' =
              [open_phases EXCEPT
                  ![s] = OpenAfter(@, chunk, "phase_started", "phase_completed")]

Init ==
    /\ active_sessions = EmptyDict
    /\ runs = <<>>
    /\ ds_results = EmptyDict
    /\ ds_agents = <<>>
    /\ results_owner = EmptyDict
    /\ events = <<>>
    /\ service_events = EmptyDict
    /\ open_agents = EmptyDict
    /\ open_phases = EmptyDict
    /\ uagent = NoKickoff
    /\ call = NoCall
    /\ sio = Connected

(***************************************************************************)
(* PolicyService (policy_service.py).                                      *)
(***************************************************************************)
\* PolicyService.create_session: uuid4 gives an id no session has.
create_session(policy_topic, background_context) ==
    /\ \E s \in SessionIds : s \notin DOMAIN active_sessions
    /\ LET session_id == Least(SessionIds \ DOMAIN active_sessions)
       IN  /\ active_sessions' =
                 Put(active_sessions, session_id,
                     [policy_topic |-> policy_topic,
                      background_context |-> background_context,
                      status |-> "initializing",
                      current_phase |-> 0,
                      phase_name |-> "Initialization",
                      agents_status |-> EmptyDict,
                      results |-> OwnResults(EmptyDict)])
           /\ service_events' =
                 Put(service_events, session_id,
                     <<Ev("session_created", [session_id |-> session_id,
                                               policy_topic |-> policy_topic])>>)
           /\ open_agents' = Put(open_agents, session_id, {})
           /\ open_phases' = Put(open_phases, session_id, {})
    /\ UNCHANGED <<runs, ds_results, ds_agents, results_owner, events>>

\* The local variables of a task that has not started to run.
NewRun(session_id) ==
    [session |-> session_id,
     pc |-> "scheduled",
     agents |-> <<>>,
     idx |-> 0,
     research_results |-> EmptyDict,
     completed_count |-> 0,
     round_num |-> 0,
     debate_history |-> <<>>,
     round_arguments |-> EmptyDict,
     consensus_reached |-> FALSE,
     voting_results |-> EmptyDict]

\* PolicyService.start_deliberation, reached through POST /start/{id}: the
\* route answers 404 and the service raises ValueError for an unknown id.
start_deliberation(session_id) ==
    /\ session_id \in DOMAIN active_sessions
    /\ Len(runs) < MaxRuns
    /\ active_sessions' = [active_sessions EXCEPT ![session_id].status = "running"]
    /\ service_events' =
          [service_events EXCEPT
              ![session_id] =
                  Append(@, Ev("deliberation_started",
                               [session_id |-> session_id,
                                policy_topic |->
                                    active_sessions[session_id].policy_topic]))]
    /\ runs' = Append(runs, NewRun(session_id))
    /\ events' = Append(events, <<>>)
    /\ UNCHANGED <<ds_results, ds_agents, results_owner, open_agents, open_phases>>

(***************************************************************************)
(* IntegratedDeliberationSystem (integrated_deliberation.py).  A run is    *)
(* suspended while asyncio.to_thread(crew.kickoff) is at work; one action  *)
(* is one resumption: everything the coroutine does from the return of a   *)
(* kickoff up to the next kickoff or to its end, the assignments of        *)
(* PolicyService._run_deliberation that follow the return of               *)
(* run_deliberation included.                                              *)
(***************************************************************************)
\* str(result)[:500], the output an agent_completed event carries.
EventOutputLen == 500

\* str(result)[:200], the vote a vote_cast event carries.
EventVoteLen == 200

\* The outputs the validator is applied to, with its verdict and with what
\* extract_policy_content makes of each.
ValidatedOutputs == PolicyOutputs \cup ServicePolicyOutputs

Verdict == [out \in ValidatedOutputs |-> is_valid_policy_output(out)]

Extracted == [out \in ValidatedOutputs |-> extract_policy_content(out)]

\* The text recorded for an output: the cleaned output when the validator
\* accepts it, the fallback for the role and topic when it does not.
RecordedText(out, agent_role, policy_topic) ==
    IF Verdict[out].is_valid
    THEN Extracted[out]
    ELSE create_fallback_response(agent_role, policy_topic)

\* The agents dictionary initialize_agents builds, as its keys in
\* insertion order: the catalog entries whose id has a method name in
\* method_map that the agent system has (methods).
InitializedAgents(methods) == SelectSeq(AgentCatalog, LAMBDA a : a \in methods)

\* The events of initialize_agents: one agent_created per catalog entry.
AgentCreatedEvents ==
    [i \in DOMAIN AgentCatalog |->
        Ev("agent_created", [agent_id |-> AgentCatalog[i], status |-> "initialized"])]

\* [a for a in agents.keys() if a not in [...the orchestration ids...]]
DomainExperts(agents) == SelectSeq(agents, LAMBDA a : a \notin OrchestrationIds)

\* The agents phase_research invokes, in the order of research_groups.
ResearchAgents(agents) == SelectSeq(research_groups, LAMBDA a : a \in Range(agents))

Topic(r) == active_sessions[runs[r].session].policy_topic

\* A variant of RunFails that reports the error and lets the run go on from
\* where it was, as a handler that retried the agent would.
RunFailsAndResumes(r, chunk, message) ==
    LET s == runs[r].session
    IN  /\ Emit(r, chunk \o <<Ev("deliberation_error",
                                 [error |-> message, phase |-> "Unknown"])>>)
        /\ runs' = runs
        /\ active_sessions' =
              [active_sessions EXCEPT
                  ![s].status = "error",
                  ![s].results = OwnResults(Put(EmptyDict, "error", message))]

\* The except branch of run_deliberation and the assignments of
\* _run_deliberation for a result without success; chunk holds the events
\* emitted before the exception was raised.
RunFails(r, chunk, message) ==
    LET s == runs[r].session
    IN  /\ Emit(r, chunk \o <<Ev("deliberation_error",
                                 [error |-> message, phase |-> "Unknown"])>>)
        /\ runs' = [runs EXCEPT ![r].pc = "returned"]
        /\ active_sessions' =
              [active_sessions EXCEPT
                  ![s].status = "error",
                  ![s].results = OwnResults(Put(EmptyDict, "error", message))]

\* self.results after the assignments of written.
Written(results, written) ==
    [k \in (DOMAIN results) \cup (DOMAIN written) |->
        IF k \in DOMAIN written THEN written[k] ELSE results[k]]

\* The assignments of run r to self.results: each key of written.
WriteResults(r, written) ==
    /\ ds_results' = Written(ds_results, written)
    /\ results_owner' =
          Written(results_owner, [k \in DOMAIN written |-> runs[r].session])

\* The task starts: phase 1 with initialize_agents, then
\* phase_problem_statement up to its kickoff, on an agent system that has
\* the constructors of methods.
RunStartsWith(r, methods) ==
    /\ runs[r].pc = "scheduled"
    /\ LET agents == InitializedAgents(methods)
           chunk ==
               <<Ev("phase_started", [phase |-> 1, phase_name |-> "Initialization"])>>
               \o AgentCreatedEvents
               \o <<Ev("phase_completed",
                       [phase |-> 1, phase_name |-> "Initialization",
                        agent_count |-> Len(agents)]),
                    Ev("phase_started",
                       [phase |-> 2, phase_name |-> "Problem Statement"])>>
       IN  /\ ds_agents' = agents
           /\ IF "problem_statement" \in Range(agents)
              THEN /\ Emit(r, chunk \o <<Ev("agent_started",
                                            [agent_id |-> "problem_statement",
                                             action |-> "clarifying problem"])>>)
                   /\ runs' = [runs EXCEPT ![r].pc = "problem_statement",
                                           ![r].agents = agents]
                   /\ UNCHANGED active_sessions
              ELSE RunFails(r, chunk, KeyErrorMessage("problem_statement"))
    /\ UNCHANGED <<ds_results, results_owner, service_events>>

\* The task starts on the agent system of agent_system.py, which has a
\* constructor for every id of method_map.
RunStarts(r) == RunStartsWith(r, method_map)

\* A variant of ResearchBegins that announces the debate while the research
\* is still to be done.
ResearchBeginsAsDebate(agents) ==
    <<Ev("phase_started", [phase |-> 4, phase_name |-> "Structured Debate"]),
      Ev("agent_started",
         [agent_id |-> ResearchAgents(agents)[1], action |-> "conducting research"])>>

\* The events with which phase_research begins, up to its first kickoff.
ResearchBegins(agents) ==
    <<Ev("phase_started",
         [phase |-> 3, phase_name |-> "Research & Analysis",
          total_agents |-> Len(DomainExperts(agents))]),
      Ev("agent_started",
         [agent_id |-> ResearchAgents(agents)[1], action |-> "conducting research"])>>

\* The kickoff of phase_problem_statement returns out.
ProblemStatementReturns(r, out) ==
    /\ runs[r].pc = "problem_statement"
    /\ LET result_str == RecordedText(out, TxtProblemStatementExpert, Topic(r))
       IN  /\ WriteResults(r, [problem_statement |-> result_str])
           /\ Emit(r, <<Ev("agent_completed",
                           [agent_id |-> "problem_statement",
                            output |-> Truncate(out, EventOutputLen)]),
                        Ev("phase_completed",
                           [phase |-> 2, phase_name |-> "Problem Statement"])>>
                      \o ResearchBegins(runs[r].agents))
           /\ runs' = [runs EXCEPT ![r].pc = "research",
                                   ![r].idx = 1,
                                   ![r].research_results = EmptyDict,
                                   ![r].completed_count = 0]
    /\ UNCHANGED <<active_sessions, ds_agents, service_events>>

\* The events with which a debate round begins, up to its first kickoff.
RoundBegins(agents, round_num) ==
    <<Ev("debate_round_started", [round |-> round_num, total_rounds |-> max_rounds]),
      Ev("agent_started",
         [agent_id |-> DomainExperts(agents)[1], action |-> "debating",
          round |-> round_num])>>

\* A kickoff of phase_research returns out.
ResearchReturns(r, out) ==
    /\ runs[r].pc = "research"
    /\ LET agents == runs[r].agents
           order == ResearchAgents(agents)
           agent_id == order[runs[r].idx]
           result_str == RecordedText(out, AgentName(agent_id), Topic(r))
           research_results == Put(runs[r].research_results, agent_id, result_str)
           completed_count == runs[r].completed_count + 1
           done == Ev("agent_completed",
                      [agent_id |-> agent_id,
                       output |-> Truncate(out, EventOutputLen),
                       progress |-> <<completed_count, Len(research_groups)>>])
       IN  IF runs[r].idx < Len(order)
           THEN /\ Emit(r, <<done,
                             Ev("agent_started",
                                [agent_id |-> order[runs[r].idx + 1],
                                 action |-> "conducting research"])>>)
                /\ runs' = [runs EXCEPT ![r].idx = @ + 1,
                                        ![r].research_results = research_results,
                                        ![r].completed_count = completed_count]
                /\ UNCHANGED <<ds_results, results_owner>>
           ELSE /\ WriteResults(r, [research |-> research_results])
                /\ Emit(r, <<done,
                             Ev("phase_completed",
                                [phase |-> 3, phase_name |-> "Research & Analysis",
                                 completed_agents |-> completed_count]),
                             Ev("phase_started",
                                [phase |-> 4, phase_name |-> "Structured Debate"])>>
                           \o RoundBegins(agents, 1))
                /\ runs' = [runs EXCEPT ![r].pc = "debate",
                                        ![r].idx = 1,
                                        ![r].research_results = research_results,
                                        ![r].completed_count = completed_count,
                                        ![r].round_num = 1,
                                        ![r].debate_history = <<>>,
                                        ![r].round_arguments = EmptyDict,
                                        ![r].consensus_reached = FALSE]
    /\ UNCHANGED <<active_sessions, ds_agents, service_events>>

\* A variant of VotingBegins that takes the votes without opening a phase.
VotingBeginsUnannounced(agents) ==
    <<Ev("agent_started",
         [agent_id |-> DomainExperts(agents)[1], action |-> "voting"])>>

\* The events with which phase_voting begins, up to its first kickoff.
VotingBegins(agents) ==
    <<Ev("phase_started", [phase |-> 5, phase_name |-> "Democratic Voting"]),
      Ev("agent_started",
         [agent_id |-> DomainExperts(agents)[1], action |-> "voting"])>>

\* A variant of ConsensusExit that asks for more than the threshold.
ConsensusExitAbove(round_num, consensus_level) ==
    round_num < max_rounds /\ consensus_level > ConsensusThreshold

\* Whether the debate loop breaks after round round_num on consensus_level.
ConsensusExit(round_num, consensus_level) ==
    round_num < max_rounds /\ consensus_level >= ConsensusThreshold

\* A variant of AppendToDebateHistory that keeps one entry per agent, the
\* latest, as a history keyed by agent would.
AppendToDebateHistoryInPlace(debate_history, round_num, agent_id, argument) ==
    Append(SelectSeq(debate_history, LAMBDA h : h.agent_id # agent_id),
           [round |-> round_num,
            agent_id |-> agent_id,
            agent_name |-> AgentName(agent_id),
            argument |-> argument])

\* debate_history.append({...}) for the argument of agent_id in round_num.
AppendToDebateHistory(debate_history, round_num, agent_id, argument) ==
    Append(debate_history,
           [round |-> round_num,
            agent_id |-> agent_id,
            agent_name |-> AgentName(agent_id),
            argument |-> argument])

\* A variant of DebateResult that records the round cap and not the rounds
\* that were run.
DebateResultAtCap(debate_history, round_num, consensus_reached) ==
    [history |-> debate_history,
     rounds |-> max_rounds,
     consensus_reached |-> consensus_reached]

\* The dictionary phase_debate stores as self.results['debate'].
DebateResult(debate_history, round_num, consensus_reached) ==
    [history |-> debate_history,
     rounds |-> round_num,
     consensus_reached |-> consensus_reached]

\* A kickoff of phase_debate returns out.
DebateReturns(r, out) ==
    /\ runs[r].pc = "debate"
    /\ LET agents == runs[r].agents
           domain_experts == DomainExperts(agents)
           agent_id == domain_experts[runs[r].idx]
           round_num == runs[r].round_num
           argument == out
           round_arguments == Put(runs[r].round_arguments, agent_id, argument)
           debate_history ==
               AppendToDebateHistory(runs[r].debate_history, round_num, agent_id,
                                     argument)
           done == Ev("agent_completed",
                      [agent_id |-> agent_id,
                       output |-> Truncate(argument, EventOutputLen),
                       round |-> round_num])
           consensus_level ==
               _assess_consensus(ValuesInOrder(round_arguments, domain_experts))
           check == IF round_num < max_rounds
                    THEN <<Ev("consensus_check",
                              [round |-> round_num,
                               consensus_level |-> consensus_level])>>
                    ELSE <<>>
           consensus_reached == ConsensusExit(round_num, consensus_level)
           reached == IF consensus_reached
                      THEN <<Ev("consensus_reached", [round |-> round_num])>>
                      ELSE <<>>
       IN  IF runs[r].idx < Len(domain_experts)
           THEN \* the next agent of the round
                /\ Emit(r, <<done,
                             Ev("agent_started",
                                [agent_id |-> domain_experts[runs[r].idx + 1],
                                 action |-> "debating", round |-> round_num])>>)
                /\ runs' = [runs EXCEPT ![r].idx = @ + 1,
                                        ![r].round_arguments = round_arguments,
                                        ![r].debate_history = debate_history]
                /\ UNCHANGED <<ds_results, results_owner>>
           ELSE IF round_num < max_rounds /\ ~consensus_reached
           THEN \* the next round
                /\ Emit(r, <<done>> \o check \o RoundBegins(agents, round_num + 1))
                /\ runs' = [runs EXCEPT ![r].idx = 1,
                                        ![r].round_num = round_num + 1,
                                        ![r].round_arguments = EmptyDict,
                                        ![r].debate_history = debate_history]
                /\ UNCHANGED <<ds_results, results_owner>>
           ELSE \* the loop ends: by break, or with its last round
                /\ WriteResults(r, [debate |->
                                       DebateResult(debate_history, round_num,
                                                    consensus_reached)])
                /\ Emit(r, <<done>> \o check \o reached
                           \o <<Ev("phase_completed",
                                   [phase |-> 4, phase_name |-> "Structured Debate",
                                    total_rounds |-> round_num,
                                    consensus_reached |-> consensus_reached])>>
                           \o VotingBegins(agents))
                /\ runs' = [runs EXCEPT ![r].pc = "voting",
                                        ![r].idx = 1,
                                        ![r].round_arguments = round_arguments,
                                        ![r].debate_history = debate_history,
                                        ![r].consensus_reached = consensus_reached,
                                        ![r].voting_results = EmptyDict]
    /\ UNCHANGED <<active_sessions, ds_agents, service_events>>

\* A kickoff of phase_voting returns out.
VotingReturns(r, out) ==
    /\ runs[r].pc = "voting"
    /\ LET agents == runs[r].agents
           domain_experts == DomainExperts(agents)
           agent_id == domain_experts[runs[r].idx]
           voting_results == Put(runs[r].voting_results, agent_id, out)
           cast == <<Ev("vote_cast",
                        [agent_id |-> agent_id, vote |-> Truncate(out, EventVoteLen)]),
                     Ev("agent_completed",
                        [agent_id |-> agent_id,
                         output |-> Truncate(out, EventOutputLen)])>>
           closing == cast
                      \o <<Ev("phase_completed",
                              [phase |-> 5, phase_name |-> "Democratic Voting",
                               total_votes |-> Cardinality(DOMAIN voting_results)]),
                           Ev("phase_started",
                              [phase |-> 6, phase_name |-> "Results Analysis"])>>
       IN  IF runs[r].idx < Len(domain_experts)
           THEN /\ Emit(r, cast \o <<Ev("agent_started",
                                        [agent_id |-> domain_experts[runs[r].idx + 1],
                                         action |-> "voting"])>>)
                /\ runs' = [runs EXCEPT ![r].idx = @ + 1,
                                        ![r].voting_results = voting_results]
                /\ UNCHANGED <<ds_results, results_owner, active_sessions>>
           ELSE /\ WriteResults(r, [voting |-> voting_results])
                /\ IF "voting_announcement" \in Range(agents)
                   THEN /\ Emit(r, closing
                                   \o <<Ev("agent_started",
                                           [agent_id |-> "voting_announcement",
                                            action |-> "announcing results"])>>)
                        /\ runs' = [runs EXCEPT ![r].pc = "results",
                                                ![r].voting_results = voting_results]
                        /\ UNCHANGED active_sessions
                   ELSE RunFails(r, closing, KeyErrorMessage("voting_announcement"))
    /\ UNCHANGED <<ds_agents, service_events>>

\* A variant of FinalDecision that looks for the rejection first.
FinalDecisionRejectFirst(result) ==
    LET result_str == Upper(result)
    IN  IF Contains(result_str, TxtREJECTED) \/ Contains(result_str, TxtREJECT)
        THEN "REJECTED"
        ELSE IF Contains(result_str, TxtAPPROVED) \/ Contains(result_str, TxtAPPROVE)
        THEN "APPROVED"
        ELSE "CONDITIONAL"

\* The decision phase_results reads out of the coordinator's output.
FinalDecision(result) ==
    LET result_str == Upper(result)
    IN  IF Contains(result_str, TxtAPPROVED) \/ Contains(result_str, TxtAPPROVE)
        THEN "APPROVED"
        ELSE IF Contains(result_str, TxtREJECTED) \/ Contains(result_str, TxtREJECT)
        THEN "REJECTED"
        ELSE "CONDITIONAL"

\* The report phase_final_report assembles from self.results.
FinalReport(policy_topic, results) ==
    [policy_topic |-> policy_topic,
     problem_statement |-> Get(results, "problem_statement", <<>>),
     research_count |-> Cardinality(DOMAIN Get(results, "research", EmptyDict)),
     debate_count |-> Cardinality(DOMAIN Get(results, "debate", EmptyDict)),
     votes_count |-> Cardinality(DOMAIN Get(results, "voting", EmptyDict)),
     final_decision |-> Get(results, "final_decision", "Unknown"),
     final_announcement |-> Get(results, "final_announcement", <<>>)]

\* The kickoff of phase_results returns out: the rest of phase_results,
\* phase_final_report, the end of run_deliberation and the assignments of
\* _run_deliberation for a result with success.
ResultsReturns(r, out) ==
    /\ runs[r].pc = "results"
    /\ LET s == runs[r].session
           final_decision == FinalDecision(out)
           announced == [final_announcement |-> out, final_decision |-> final_decision]
           report == FinalReport(Topic(r), Written(ds_results, announced))
           final == Written(Written(ds_results, announced), [final_report |-> report])
       IN  /\ WriteResults(r, [final_announcement |-> out,
                               final_decision |-> final_decision,
                               final_report |-> report])
           /\ Emit(r, <<Ev("results_announced",
                           [decision |-> final_decision,
                            announcement |-> Truncate(out, EventOutputLen)]),
                        Ev("phase_completed",
                           [phase |-> 6, phase_name |-> "Results Analysis",
                            final_decision |-> final_decision]),
                        Ev("phase_started",
                           [phase |-> 7, phase_name |-> "Final Report"]),
                        Ev("report_generated", [report |-> report]),
                        Ev("phase_completed",
                           [phase |-> 7, phase_name |-> "Final Report"]),
                        Ev("deliberation_complete",
                           [session_id |-> s,
                            total_agents |-> Len(runs[r].agents),
                            final_decision |->
                                Get(final, "final_decision", "Unknown")])>>)
           /\ runs' = [runs EXCEPT ![r].pc = "returned"]
           /\ active_sessions' = [active_sessions EXCEPT ![s].status = "completed",
                                                         ![s].results = SharedResults]
    /\ UNCHANGED <<ds_agents, service_events>>


(***************************************************************************)
(* The reads of the API, api/v1/policy.py.                                  *)
(***************************************************************************)
\* PolicyResponse built from a PolicySession, as the routes build it; the
\* two timestamps are left out.
PolicyResponse(session_id, session) ==
    [session_id |-> session_id,
     policy_topic |-> session.policy_topic,
     background_context |-> session.background_context,
     status |-> session.status,
     current_phase |-> session.current_phase,
     phase_name |-> session.phase_name]

HTTP404 == [status_code |-> 404, detail |-> "Session not found"]

\* GET /session/{session_id}
get_session(session_id) ==
    IF session_id \in DOMAIN active_sessions
    THEN PolicyResponse(session_id, active_sessions[session_id])
    ELSE HTTP404

\* GET /sessions: the sessions in the order of their creation.
list_sessions ==
    [s \in DOMAIN active_sessions |-> PolicyResponse(s, active_sessions[s])]

(***************************************************************************)
(* The task of the voting coordinator, phase_results and task_system.py.    *)
(***************************************************************************)
TxtReviewAllVotes ==
    <<"R","e","v","i","e","w"," ","a","l","l"," ","v","o","t","e","s"," ","a","b","o","v","e">>

\* The votes_summary that phase_results passes for the votes of the Voting
\* phase: a fixed sentence.
votes_summary(voting_results) == TxtReviewAllVotes

\* The parts of the task description that come from the arguments.
create_voting_coordination_task(policy_topic, summary) ==
    [policy_topic |-> policy_topic, votes_summary |-> summary]

\* The task phase_results builds for the coordinator in run r.
CoordinationTask(r) ==
    create_voting_coordination_task(Topic(r), votes_summary(runs[r].voting_results))

(***************************************************************************)
(* The context of a debate task, _build_debate_context.                     *)
(***************************************************************************)
\* relevant_args[-5:]
ContextWindow == 5

\* arg['argument'][:300]
ArgumentExcerptLen == 300

TxtNoPreviousArguments ==
    <<"N","o"," ","p","r","e","v","i","o","u","s"," ","a","r","g","u","m","e","n","t","s"," ","y","e","t","."," ","Y","o","u"," ","a","r","e"," ","a","m","o","n","g"," ","t","h","e"," ","f","i","r","s","t"," ","t","o"," ","s","p","e","a","k",".">>

TxtNoPreviousInRound ==
    <<"N","o"," ","p","r","e","v","i","o","u","s"," ","a","r","g","u","m","e","n","t","s"," ","i","n"," ","t","h","i","s"," ","r","o","u","n","d"," ","y","e","t",".">>

\* One entry of context_parts: the values the f-string interpolates, the
\* argument cut to its first 300 characters and followed by "...".
ContextPart(arg) ==
    [agent_name |-> arg.agent_name,
     round |-> arg.round,
     argument |-> Truncate(arg.argument, ArgumentExcerptLen) \o <<".", ".", ".">>]

\* s[-n:]
Last(s, n) == SubSeq(s, Len(s) - Min(n, Len(s)) + 1, Len(s))

\* The arguments of debate_history from earlier rounds, or from the current
\* round by another agent.
RelevantArgs(debate_history, current_round, current_agent) ==
    SelectSeq(debate_history,
              LAMBDA arg : \/ arg.round < current_round
                           \/ arg.round = current_round /\ arg.agent_id # current_agent)

\* A variant of _build_debate_context that takes the first five of the
\* relevant arguments.
_build_debate_context_first_five(debate_history, current_round, current_agent) ==
    LET relevant_args == RelevantArgs(debate_history, current_round, current_agent)
        first == SubSeq(relevant_args, 1, Min(ContextWindow, Len(relevant_args)))
    IN  IF debate_history = <<>>
        THEN [message |-> TxtNoPreviousArguments, context_parts |-> <<>>]
        ELSE IF relevant_args = <<>>
        THEN [message |-> TxtNoPreviousInRound, context_parts |-> <<>>]
        ELSE [message |-> <<>>,
              context_parts |-> [i \in DOMAIN first |-> ContextPart(first[i])]]

\* IntegratedDeliberationSystem._build_debate_context: one of the two
\* sentences that say there is no argument, or the parts it joins with
\* newlines.
_build_debate_context(debate_history, current_round, current_agent) ==
    LET relevant_args == RelevantArgs(debate_history, current_round, current_agent)
        last == Last(relevant_args, ContextWindow)
    IN  IF debate_history = <<>>
        THEN [message |-> TxtNoPreviousArguments, context_parts |-> <<>>]
        ELSE IF relevant_args = <<>>
        THEN [message |-> TxtNoPreviousInRound, context_parts |-> <<>>]
        ELSE [message |-> <<>>,
              context_parts |-> [i \in DOMAIN last |-> ContextPart(last[i])]]
AwaitingKickoff == {"problem_statement", "research", "debate", "voting", "results"}

\* A kickoff raises: the exception leaves the phase and run_deliberation
\* catches it.
KickoffRaises(r, message) ==
    /\ runs[r].pc \in AwaitingKickoff
    /\ RunFails(r, <<>>, message)
    /\ UNCHANGED <<ds_results, ds_agents, results_owner, service_events>>

(***************************************************************************)
(* The service: any number of sessions and of start requests, the runs     *)
(* interleaved at their kickoffs.                                          *)
(***************************************************************************)
Next ==
    \/ \E topic \in Topics : create_session(topic, <<>>) /\ UNCHANGED outside_backend
    \/ \E s \in SessionIds : start_deliberation(s) /\ UNCHANGED outside_backend
    \/ \E r \in RunIds : RunStarts(r) /\ UNCHANGED outside_backend
    \/ \E r \in RunIds, out \in ServicePolicyOutputs : ProblemStatementReturns(r, out)
           /\ UNCHANGED outside_backend
    \/ \E r \in RunIds, out \in ServicePolicyOutputs : ResearchReturns(r, out)
           /\ UNCHANGED outside_backend
    \/ \E r \in RunIds, out \in ServiceDebateOutputs : DebateReturns(r, out)
           /\ UNCHANGED outside_backend
    \/ \E r \in RunIds, out \in VoteOutputs : VotingReturns(r, out) /\ UNCHANGED outside_backend
    \/ \E r \in RunIds, out \in ServiceAnnouncementOutputs : ResultsReturns(r, out)
           /\ UNCHANGED outside_backend
    \/ \E r \in RunIds, message \in ErrorMessages : KickoffRaises(r, message)
           /\ UNCHANGED outside_backend

Spec == Init /\ [][Next]_vars

(***************************************************************************)
(* One run: one session, started once, with every output of the agents.    *)
(***************************************************************************)
NextRun ==
    \/ \E topic \in Topics : active_sessions = EmptyDict /\ create_session(topic, <<>>)
           /\ UNCHANGED outside_backend
    \/ \E s \in SessionIds : runs = <<>> /\ start_deliberation(s) /\ UNCHANGED outside_backend
    \/ \E r \in RunIds : RunStarts(r) /\ UNCHANGED outside_backend
    \/ \E r \in RunIds, out \in PolicyOutputs : ProblemStatementReturns(r, out)
           /\ UNCHANGED outside_backend
    \/ \E r \in RunIds, out \in PolicyOutputs : ResearchReturns(r, out) /\ UNCHANGED outside_backend
    \/ \E r \in RunIds, out \in RunDebateOutputs : DebateReturns(r, out)
           /\ UNCHANGED outside_backend
    \/ \E r \in RunIds, out \in VoteOutputs : VotingReturns(r, out) /\ UNCHANGED outside_backend
    \/ \E r \in RunIds, out \in AnnouncementOutputs : ResultsReturns(r, out)
           /\ UNCHANGED outside_backend
    \/ \E r \in RunIds, message \in ErrorMessages : KickoffRaises(r, message)
           /\ UNCHANGED outside_backend

SpecRun == Init /\ [][NextRun]_vars


(***************************************************************************)
(* One run with every argument of the debate: the other phases get one     *)
(* output each.                                                            *)
(***************************************************************************)
NextDebate ==
    \/ \E topic \in Topics : active_sessions = EmptyDict /\ create_session(topic, <<>>)
           /\ UNCHANGED outside_backend
    \/ \E s \in SessionIds : runs = <<>> /\ start_deliberation(s) /\ UNCHANGED outside_backend
    \/ \E r \in RunIds : RunStarts(r) /\ UNCHANGED outside_backend
    \/ \E r \in RunIds, out \in ServicePolicyOutputs : ProblemStatementReturns(r, out)
           /\ UNCHANGED outside_backend
    \/ \E r \in RunIds, out \in ServicePolicyOutputs : ResearchReturns(r, out)
           /\ UNCHANGED outside_backend
    \/ \E r \in RunIds, out \in DebateOutputs : DebateReturns(r, out) /\ UNCHANGED outside_backend
    \/ \E r \in RunIds, out \in VoteOutputs : VotingReturns(r, out) /\ UNCHANGED outside_backend
    \/ \E r \in RunIds, out \in ServiceAnnouncementOutputs : ResultsReturns(r, out)
           /\ UNCHANGED outside_backend
    \/ \E r \in RunIds, message \in ErrorMessages : KickoffRaises(r, message)
           /\ UNCHANGED outside_backend

SpecDebate == Init /\ [][NextDebate]_vars

(***************************************************************************)
(* Calls of the functions that depend on their arguments alone: the        *)
(* arguments are drawn when the call is made, and the call returns what    *)
(* the function computes.                                                  *)
(***************************************************************************)
\* The most arguments a round hands to _assess_consensus.
MaxArguments == 3

\* The argument texts of a round: agreement only, disagreement only, both,
\* the one word "disagree", no keyword, agreement in capitals.
ConsensusTexts ==
    {TxtAgree, TxtHowever, TxtTorn, TxtDisagree, TxtNeither, TxtFullSupport}

\* round_arguments.values(): every list of at most MaxArguments texts.
ArgumentLists ==
    UNION {[1..n -> ConsensusTexts] : n \in 0..MaxArguments}

\* What an output starts with: nothing; a sentence of 49 characters with
\* four policy keywords; the same with 50 characters; a sentence without
\* a policy keyword; a sentence with one.
ValidatorPrefixes ==
    { <<>>,
      <<"F","i","s","c","a","l"," ","p","o","l","i","c","y"," ","h","a","s",
        " ","a","n"," ","i","m","p","a","c","t"," ","o","n"," ","a","l","l",
        " ","s","t","a","t","e"," ","r","e","v","e","n","u","e",".">>,
      <<"F","i","s","c","a","l"," ","p","o","l","i","c","y"," ","h","a","s",
        " ","a","n"," ","i","m","p","a","c","t"," ","o","n"," ","a","l","l",
        " ","s","t","a","t","e"," ","r","e","v","e","n","u","e","s",".">>,
      <<"T","h","e"," ","w","e","a","t","h","e","r"," ","w","a","s"," ","f",
        "i","n","e"," ","a","n","d"," ","t","h","e"," ","w","a","l","k"," ",
        "a","l","o","n","g"," ","t","h","e"," ","r","i","v","e","r"," ","w",
        "a","s"," ","l","o","n","g",".">>,
      <<"T","h","e"," ","w","e","a","t","h","e","r"," ","w","a","s"," ","f",
        "i","n","e"," ","a","n","d"," ","t","h","e"," ","p","o","l","i","c",
        "y"," ","w","a","l","k"," ","b","y"," ","t","h","e"," ","r","i","v",
        "e","r"," ","l","o","n","g",".">> }

\* What follows: nothing; two code keywords in capitals; three.
CodeKeywordTails ==
    { <<>>,
      <<" ","D","o","c","k","e","r"," ","G","P","U">>,
      <<" ","D","o","c","k","e","r"," ","G","P","U"," ","m","a","l","l","o",
        "c">> }

\* What an output ends with: nothing; a fenced block tagged python; a
\* fenced block tagged c++ whose closing fence ends the text; a script
\* tag; a Python function definition.
CodeTails ==
    { <<>>,
      <<"\n",Backquote,Backquote,Backquote,"p","y","t","h","o","n","\n","x",
        " ","="," ","1","\n",Backquote,Backquote,Backquote,"\n">>,
      <<"\n",Backquote,Backquote,Backquote,"c","+","+","\n","i","n","t"," ",
        "x",";","\n",Backquote,Backquote,Backquote>>,
      <<"\n","<","S","c","r","i","p","t",">">>,
      <<"\n","d","e","f"," ","r","u","n","(","x",")",":">> }

\* The texts handed to is_valid_policy_output.
ValidatorTexts ==
    {p \o k \o c : p \in ValidatorPrefixes, k \in CodeKeywordTails, c \in CodeTails}


\* The arguments crew.kickoff returns to the debate tasks whose contexts
\* are built: one of disagreement, and a long one of agreement.
ContextArguments == {TxtHowever, TxtLongAgreement}

\* The domain experts of the catalog the model runs with, of a catalog
\* with one more, and of the whole catalog.
ExpertLists ==
    {DomainExperts(SubSeq(get_all_agent_definitions, 1, 3 + n)) :
        n \in {NumExperts, NumExperts + 1, Len(get_all_agent_definitions) - 3}}

\* debate_history after the kickoffs of phase_debate have returned
\* arguments, one after the other: the experts speak in their order, round
\* after round.
RECURSIVE HistoryOf(_, _)
HistoryOf(experts, arguments) ==
    IF arguments = <<>>
    THEN <<>>
    ELSE LET k == Len(arguments) - 1
         IN  AppendToDebateHistory(HistoryOf(experts, SubSeq(arguments, 1, k)),
                                   (k \div Len(experts)) + 1,
                                   experts[(k % Len(experts)) + 1],
                                   arguments[k + 1])

\* phase_debate makes one more invocation after arguments: no round that
\* is complete has ended the debate, and the rounds are not used up.
DebateGoesOn(experts, arguments) ==
    LET n == Len(experts)
        complete == Len(arguments) \div n
    IN  /\ complete + 1 <= max_rounds
        /\ \A round_num \in 1..complete :
               ~ConsensusExit(round_num,
                              _assess_consensus(SubSeq(arguments,
                                                       (round_num - 1) * n + 1,
                                                       round_num * n)))

\* The calls of _build_debate_context that phase_debate makes.
DebateInvocations ==
    {[fn |-> "_build_debate_context",
      debate_history |-> HistoryOf(p[1], p[2]),
      current_round |-> (Len(p[2]) \div Len(p[1])) + 1,
      current_agent |-> p[1][(Len(p[2]) % Len(p[1])) + 1],
      state |-> "called"] :
        p \in {q \in ExpertLists \X UNION {[1..k -> ContextArguments] : k \in 0..MaxHistory} :
                  DebateGoesOn(q[1], q[2])}}

\* The calls that can be made.
Calls ==
    DebateInvocations
    \cup
    {[fn |-> "_assess_consensus", arguments |-> arguments, state |-> "called"] :
        arguments \in ArgumentLists}
    \cup
    {[fn |-> "is_valid_policy_output", output |-> output, state |-> "called"] :
        output \in ValidatorTexts}

InitCalls ==
    /\ active_sessions = EmptyDict
    /\ runs = <<>>
    /\ ds_results = EmptyDict
    /\ ds_agents = <<>>
    /\ results_owner = EmptyDict
    /\ events = <<>>
    /\ service_events = EmptyDict
    /\ open_agents = EmptyDict
    /\ open_phases = EmptyDict
    /\ uagent = NoKickoff
    /\ sio = Connected
    /\ call \in Calls

\* What a call leaves alone.
outside_call ==
    <<active_sessions, runs, ds_results, ds_agents, results_owner, events,
      service_events, open_agents, open_phases, uagent, sio>>

\* _assess_consensus returns.
AssessConsensusReturns ==
    /\ call.fn = "_assess_consensus"
    /\ call.state = "called"
    /\ call' = [fn |-> call.fn,
                arguments |-> call.arguments,
                state |-> "returned",
                result |-> _assess_consensus(call.arguments)]
    /\ UNCHANGED outside_call

\* is_valid_policy_output returns.
ValidatorReturns ==
    /\ call.fn = "is_valid_policy_output"
    /\ call.state = "called"
    /\ call' = [fn |-> call.fn,
                output |-> call.output,
                state |-> "returned",
                result |-> is_valid_policy_output(call.output)]
    /\ UNCHANGED outside_call

\* _build_debate_context returns.
BuildDebateContextReturns ==
    /\ call.fn = "_build_debate_context"
    /\ call.state = "called"
    /\ call' = [fn |-> call.fn,
                debate_history |-> call.debate_history,
                current_round |-> call.current_round,
                current_agent |-> call.current_agent,
                state |-> "returned",
                result |-> _build_debate_context(call.debate_history,
                                                 call.current_round,
                                                 call.current_agent)]
    /\ UNCHANGED outside_call

NextCalls ==
    \/ BuildDebateContextReturns
    \/ AssessConsensusReturns
    \/ ValidatorReturns

SpecCalls == InitCalls /\ [][NextCalls]_vars

(***************************************************************************)
(* AutoPolicyDeliberationSystem of uagent_main.py: one object, and the     *)
(* kickoffs made on it one after the other.  A phase method is one step;   *)
(* the phases that run a crew may raise.                                   *)
(***************************************************************************)
\* The phases of run_full_deliberation, by the methods it calls in order.
run_full_deliberation ==
    <<"initialize_agents_for_policy", "run_problem_statement_phase",
      "run_turn_management_setup", "run_research_phase", "run_debate_phase",
      "run_voting_phase", "run_final_announcement",
      "generate_final_summary_report">>

\* A variant of run_quick_analysis that sets up turn management.
run_quick_analysis_with_setup ==
    <<"initialize_agents_for_policy", "run_problem_statement_phase",
      "run_turn_management_setup", "run_research_phase", "run_voting_phase",
      "run_final_announcement", "generate_final_summary_report">>

\* The methods run_quick_analysis calls in order.
run_quick_analysis ==
    <<"initialize_agents_for_policy", "run_problem_statement_phase",
      "run_research_phase", "run_voting_phase", "run_final_announcement",
      "generate_final_summary_report">>

\* The methods run_research_only calls in order.
run_research_only ==
    <<"initialize_agents_for_policy", "run_problem_statement_phase",
      "run_research_phase">>

\* The methods run_debate_only calls in order; the agents are initialized
\* only if the object has none yet.
run_debate_only(self) ==
    (IF ~self.agents \/ ~self.is_initialized
     THEN <<"initialize_agents_for_policy">> ELSE <<>>)
    \o <<"run_debate_phase", "run_voting_phase", "run_final_announcement">>

\* The phase methods that call crew.kickoff().
CrewPhases ==
    {"run_problem_statement_phase", "run_turn_management_setup",
     "run_research_phase", "run_debate_phase", "run_voting_phase",
     "run_final_announcement"}

\* The key of deliberation_results a phase method assigns.
ResultKey ==
    [phase \in CrewPhases |->
        CASE phase = "run_problem_statement_phase" -> "problem_statement"
          [] phase = "run_turn_management_setup" -> "turn_management"
          [] phase = "run_research_phase" -> "research"
          [] phase = "run_debate_phase" -> "debate"
          [] phase = "run_voting_phase" -> "voting"
          [] phase = "run_final_announcement" -> "final_announcement"]

\* The mode values handed to kickoff: the four it names and two others.
ModeValues ==
    {"full", "quick", "research_only", "debate_only", "turbo", "FULL"}

\* The inputs of kickoff: None, an empty dict, a dict without "mode", and
\* dicts with one.  The inputs carry no city_data, policy_type, time_range
\* or interests, so background_context stays as constructed.
KickoffInputs ==
    {[is_none |-> TRUE, dict |-> EmptyDict]}
    \cup {[is_none |-> FALSE, dict |-> d] :
            d \in {EmptyDict, [k \in {"policy_topic"} |-> "Housing"]}
                  \cup {[k \in {"mode"} |-> m] : m \in ModeValues}}

\* inputs.get("mode", "full") if inputs else "full"
kickoff_mode(inputs) ==
    IF ~inputs.is_none /\ inputs.dict # EmptyDict
    THEN IF "mode" \in DOMAIN inputs.dict THEN inputs.dict["mode"] ELSE "full"
    ELSE "full"

\* A variant of kickoff_method whose final else runs the quick analysis.
kickoff_method_else_quick(mode) ==
    IF mode = "full" THEN "run_full_deliberation"
    ELSE IF mode = "quick" THEN "run_quick_analysis"
    ELSE IF mode = "research_only" THEN "run_research_only"
    ELSE IF mode = "debate_only" THEN "run_debate_only"
    ELSE "run_quick_analysis"

\* The method kickoff returns the result of.
kickoff_method(mode) ==
    IF mode = "full" THEN "run_full_deliberation"
    ELSE IF mode = "quick" THEN "run_quick_analysis"
    ELSE IF mode = "research_only" THEN "run_research_only"
    ELSE IF mode = "debate_only" THEN "run_debate_only"
    ELSE "run_full_deliberation"

\* The phase methods a workflow method calls, on the object as it is when
\* the method starts.
Workflow(method, self) ==
    CASE method = "run_full_deliberation" -> run_full_deliberation
      [] method = "run_quick_analysis" -> run_quick_analysis
      [] method = "run_research_only" -> run_research_only
      [] method = "run_debate_only" -> run_debate_only(self)

\* The keys of the dict a workflow method returns.
ReturnKeys ==
    [method \in {"run_full_deliberation", "run_quick_analysis",
                 "run_research_only", "run_debate_only"} |->
        CASE method = "run_full_deliberation" ->
                 {"agents", "results", "final_report", "duration_seconds"}
          [] method = "run_quick_analysis" ->
                 {"agents", "results", "final_report", "mode"}
          [] method = "run_research_only" -> {"agents", "research", "mode"}
          [] method = "run_debate_only" ->
                 {"agents", "debate", "voting", "final_announcement", "mode"}]

\* AutoPolicyDeliberationSystem.__init__
Constructed ==
    [pc |-> "idle",
     policy_topic |-> "",
     deliberation_results |-> {},
     agents |-> FALSE,
     is_initialized |-> FALSE,
     kick |-> NoKickoff,
     previous |-> NoKickoff]

InitKickoff ==
    /\ active_sessions = EmptyDict
    /\ runs = <<>>
    /\ ds_results = EmptyDict
    /\ ds_agents = <<>>
    /\ results_owner = EmptyDict
    /\ events = <<>>
    /\ service_events = EmptyDict
    /\ open_agents = EmptyDict
    /\ open_phases = EmptyDict
    /\ uagent = Constructed
    /\ call = NoCall
    /\ sio = Connected

\* What a kickoff leaves alone.
outside_uagent ==
    <<active_sessions, runs, ds_results, ds_agents, results_owner, events,
      service_events, open_agents, open_phases, call, sio>>

\* update_parameters: only the keys that are attributes of the object are
\* set; "mode" is not one.
update_parameters(self, inputs) ==
    IF ~inputs.is_none /\ "policy_topic" \in DOMAIN inputs.dict
    THEN [self EXCEPT !.policy_topic = inputs.dict["policy_topic"]]
    ELSE self

\* kickoff(inputs) is called: the parameters are updated and the workflow
\* method of the mode starts.
Kickoff ==
    \E inputs \in KickoffInputs :
        /\ uagent.pc \in {"idle", "returned"}
        /\ LET self == update_parameters(uagent, inputs)
               method == kickoff_method(kickoff_mode(inputs))
           IN  uagent' = [self EXCEPT
                   !.pc = "running",
                   !.previous = uagent.kick,
                   !.kick = [pc |-> "running",
                             inputs |-> inputs,
                             method |-> method,
                             todo |-> Workflow(method, self),
                             executed |-> <<>>,
                             raised_in |-> "none",
                             result |-> [kind |-> "none", keys |-> {}]]]
        /\ UNCHANGED outside_uagent

\* The next phase method of the workflow returns.
PhaseReturns ==
    /\ uagent.pc = "running"
    /\ uagent.kick.todo # <<>>
    /\ LET phase == Head(uagent.kick.todo)
       IN  uagent' = [uagent EXCEPT
               !.kick.todo = Tail(@),
               !.kick.executed = Append(@, phase),
               !.agents = IF phase = "initialize_agents_for_policy"
                          THEN TRUE ELSE @,
               !.is_initialized = IF phase = "initialize_agents_for_policy"
                                  THEN TRUE ELSE @,
               !.deliberation_results =
                   IF phase \in CrewPhases THEN @ \cup {ResultKey[phase]} ELSE @]
    /\ UNCHANGED outside_uagent

\* crew.kickoff() raises in the next phase method, which counts as entered:
\* run_full_deliberation catches the exception and returns None, the other
\* workflow methods let it out of kickoff.
PhaseRaises ==
    /\ uagent.pc = "running"
    /\ uagent.kick.todo # <<>>
    /\ Head(uagent.kick.todo) \in CrewPhases
    /\ LET phase == Head(uagent.kick.todo)
       IN  uagent' = [uagent EXCEPT
               !.pc = "returned",
               !.kick.pc = "returned",
               !.kick.todo = <<>>,
               !.kick.executed = Append(@, phase),
               !.kick.raised_in = phase,
               !.kick.result =
                   IF uagent.kick.method = "run_full_deliberation"
                   THEN [kind |-> "None", keys |-> {}]
                   ELSE [kind |-> "raised", keys |-> {}]]
    /\ UNCHANGED outside_uagent

\* The workflow method returns its dict, and kickoff returns it.
WorkflowReturns ==
    /\ uagent.pc = "running"
    /\ uagent.kick.todo = <<>>
    /\ uagent' = [uagent EXCEPT
           !.pc = "returned",
           !.kick.pc = "returned",
           !.kick.result = [kind |-> "dict",
                            keys |-> ReturnKeys[uagent.kick.method]]]
    /\ UNCHANGED outside_uagent

NextKickoff ==
    \/ Kickoff
    \/ PhaseReturns
    \/ PhaseRaises
    \/ WorkflowReturns

SpecKickoff == InitKickoff /\ [][NextKickoff]_vars

(***************************************************************************)
(* One run on an agent system that lacks the constructor of one catalog    *)
(* entry, the case the else branch of initialize_agents is written for.    *)
(***************************************************************************)
\* The ids the agent system has a constructor for: all of them, or all but
\* one entry of the catalog.
ConstructorSets ==
    {method_map} \cup {method_map \ {a} : a \in Range(AgentCatalog)}

NextCatalog ==
    \/ \E topic \in Topics : active_sessions = EmptyDict /\ create_session(topic, <<>>)
           /\ UNCHANGED outside_backend
    \/ \E s \in SessionIds : runs = <<>> /\ start_deliberation(s) /\ UNCHANGED outside_backend
    \/ \E r \in RunIds, methods \in ConstructorSets : RunStartsWith(r, methods)
           /\ UNCHANGED outside_backend
    \/ \E r \in RunIds, out \in PolicyOutputs : ProblemStatementReturns(r, out)
           /\ UNCHANGED outside_backend
    \/ \E r \in RunIds, out \in ServicePolicyOutputs : ResearchReturns(r, out)
           /\ UNCHANGED outside_backend
    \/ \E r \in RunIds, out \in ServiceDebateOutputs : DebateReturns(r, out)
           /\ UNCHANGED outside_backend
    \/ \E r \in RunIds, out \in VoteOutputs : VotingReturns(r, out) /\ UNCHANGED outside_backend
    \/ \E r \in RunIds, out \in ServiceAnnouncementOutputs : ResultsReturns(r, out)
           /\ UNCHANGED outside_backend
    \/ \E r \in RunIds, message \in ErrorMessages : KickoffRaises(r, message)
           /\ UNCHANGED outside_backend

SpecCatalog == Init /\ [][NextCatalog]_vars

(***************************************************************************)
(* The Socket.IO server of main.py: the events of the service pass through  *)
(* emit_event and emit_websocket_event to the clients in a session's room.  *)
(***************************************************************************)
\* The clients in a room.
Members(io, room) == {c \in Clients : room \in io.rooms[c]}

\* A message as a client receives it, with the session it was emitted for
\* and its position among the events emitted for that session.
Msg(e, session_id, seq) ==
    [event |-> e.event, data |-> e.data, session |-> session_id, seq |-> seq]

\* sio.emit: one message to each of the clients in to.
Send(io, e, session_id, to) ==
    LET seq == IF session_id \in SessionIds THEN io.emitted[session_id] + 1 ELSE 0
    IN  [io EXCEPT
            !.emitted = IF session_id \in SessionIds
                        THEN [@ EXCEPT ![session_id] = seq]
                        ELSE @,
            !.inbox = [c \in Clients |->
                          IF c \in to
                          THEN Append(io.inbox[c], Msg(e, session_id, seq))
                          ELSE io.inbox[c]]]

\* emit_websocket_event with room in place of the test of session_id: every
\* event goes to every client.
emit_websocket_event_to_all(io, e, session_id) == Send(io, e, session_id, Clients)

\* emit_websocket_event: to the room of the session, to every client when
\* there is no session id.
emit_websocket_event(io, e, session_id) ==
    IF session_id # None
    THEN Send(io, e, session_id, Members(io, session_id))
    ELSE Send(io, e, None, Clients)

\* emit_event without its try: the exception of the emitter leaves it.
emit_event_unguarded(io, e, session_id, raises) ==
    IF raises
    THEN [io EXCEPT !.raised = Append(@, e.event), !.escaped = TRUE]
    ELSE emit_websocket_event(io, e, session_id)

\* emit_event of IntegratedDeliberationSystem and of PolicyService, when
\* the emitter raises and when it does not: the exception is caught and
\* logged.
emit_event(io, e, session_id, raises) ==
    IF raises
    THEN [io EXCEPT !.raised = Append(@, e.event)]
    ELSE emit_websocket_event(io, e, session_id)

\* The calls of emit_event for the events of chunk from the i-th on, the
\* emitter raising at the positions of failing.
RECURSIVE EmitFrom(_, _, _, _, _)
EmitFrom(io, chunk, session_id, failing, i) ==
    IF i > Len(chunk)
    THEN io
    ELSE EmitFrom(emit_event(io, chunk[i], session_id, i \in failing),
                  chunk, session_id, failing, i + 1)

NewEvents(old, new) == SubSeq(new, Len(old) + 1, Len(new))

\* The events a step of the service hands to emit_event, in order, and
\* their session: a step emits for one session only.
StepEmits ==
    LET rs == {r \in DOMAIN events : events'[r] # events[r]}
        ss == {s \in DOMAIN service_events' :
                  \/ s \notin DOMAIN service_events
                  \/ service_events'[s] # service_events[s]}
    IN  IF rs # {}
        THEN LET r == CHOOSE r \in rs : TRUE
             IN  [session |-> runs[r].session,
                  chunk |-> NewEvents(events[r], events'[r])]
        ELSE IF ss # {}
        THEN LET s == CHOOSE s \in ss : TRUE
             IN  [session |-> s,
                  chunk |-> IF s \in DOMAIN service_events
                            THEN NewEvents(service_events[s], service_events'[s])
                            ELSE service_events'[s]]
        ELSE [session |-> None, chunk |-> <<>>]

\* The emitter raises in none of the calls of the step.
Emits == sio' = EmitFrom(sio, StepEmits.chunk, StepEmits.session, {}, 1)

\* The emitter raises in some of the calls of the step.
EmitsOrRaises ==
    \E failing \in SUBSET DOMAIN StepEmits.chunk :
        /\ Len(sio.raised) + Cardinality(failing) <= MaxEmitFailures
        /\ sio' = EmitFrom(sio, StepEmits.chunk, StepEmits.session, failing, 1)

\* subscribe_session: the client learnt the id from POST /create, and
\* follows one session.
subscribe_session(sid, session_id) ==
    /\ session_id \in DOMAIN active_sessions
    /\ sio.rooms[sid] = {OwnRoom(sid)}
    /\ LET entered == [sio EXCEPT
                          !.rooms[sid] = @ \cup {session_id},
                          !.entered_at[sid] =
                              Put(@, session_id, sio.emitted[session_id])]
           answered == Send(entered, Ev("subscribed", [session_id |-> session_id]),
                            None, Members(entered, OwnRoom(sid)))
       IN  sio' = Send(answered, Ev("test_event", [message |-> "Test event from backend"]),
                       session_id, Members(answered, session_id))
    /\ UNCHANGED <<active_sessions, runs, ds_results, ds_agents, results_owner,
                   events, service_events, open_agents, open_phases>>

(***************************************************************************)
(* One run among the sessions, and clients that subscribe at any moment.    *)
(***************************************************************************)
NextSocket ==
    \/ \E topic \in Topics : create_session(topic, <<>>) /\ Emits
           /\ UNCHANGED outside_service
    \/ \E s \in SessionIds : runs = <<>> /\ start_deliberation(s) /\ Emits
           /\ UNCHANGED outside_service
    \/ \E r \in RunIds : RunStarts(r) /\ Emits /\ UNCHANGED outside_service
    \/ \E r \in RunIds, out \in ServicePolicyOutputs : ProblemStatementReturns(r, out)
           /\ Emits /\ UNCHANGED outside_service
    \/ \E r \in RunIds, out \in ServicePolicyOutputs : ResearchReturns(r, out)
           /\ Emits /\ UNCHANGED outside_service
    \/ \E r \in RunIds, out \in ServiceDebateOutputs : DebateReturns(r, out)
           /\ Emits /\ UNCHANGED outside_service
    \/ \E r \in RunIds, out \in VoteOutputs : VotingReturns(r, out)
           /\ Emits /\ UNCHANGED outside_service
    \/ \E r \in RunIds, out \in ServiceAnnouncementOutputs : ResultsReturns(r, out)
           /\ Emits /\ UNCHANGED outside_service
    \/ \E r \in RunIds, message \in ErrorMessages : KickoffRaises(r, message)
           /\ Emits /\ UNCHANGED outside_service
    \/ \E c \in Clients, s \in SessionIds : subscribe_session(c, s)
           /\ UNCHANGED outside_service

SpecSocket == Init /\ [][NextSocket]_vars

(***************************************************************************)
(* One run whose emitter raises.                                            *)
(***************************************************************************)
NextEmit ==
    \/ \E topic \in Topics : active_sessions = EmptyDict /\ create_session(topic, <<>>)
           /\ EmitsOrRaises /\ UNCHANGED outside_service
    \/ \E s \in SessionIds : runs = <<>> /\ start_deliberation(s) /\ EmitsOrRaises
           /\ UNCHANGED outside_service
    \/ \E r \in RunIds : RunStarts(r) /\ EmitsOrRaises /\ UNCHANGED outside_service
    \/ \E r \in RunIds, out \in ServicePolicyOutputs : ProblemStatementReturns(r, out)
           /\ EmitsOrRaises /\ UNCHANGED outside_service
    \/ \E r \in RunIds, out \in ServicePolicyOutputs : ResearchReturns(r, out)
           /\ EmitsOrRaises /\ UNCHANGED outside_service
    \/ \E r \in RunIds, out \in ServiceDebateOutputs : DebateReturns(r, out)
           /\ EmitsOrRaises /\ UNCHANGED outside_service
    \/ \E r \in RunIds, out \in VoteOutputs : VotingReturns(r, out)
           /\ EmitsOrRaises /\ UNCHANGED outside_service
    \/ \E r \in RunIds, out \in ServiceAnnouncementOutputs : ResultsReturns(r, out)
           /\ EmitsOrRaises /\ UNCHANGED outside_service
    \/ \E r \in RunIds, message \in ErrorMessages : KickoffRaises(r, message)
           /\ EmitsOrRaises /\ UNCHANGED outside_service

SpecEmit == Init /\ [][NextEmit]_vars

(***************************************************************************)
(* Reading the event log of a run.                                         *)
(***************************************************************************)
\* The positions of log that hold an event named name.
Positions(log, name) == {i \in DOMAIN log : log[i].event = name}

\* The positions of log that hold the event name of phase p.
PhaseAt(log, name, p) == {i \in Positions(log, name) : log[i].data.phase = p}

\* The phase_name fields of the events named name, in the order of log.
PhaseNames(log, name) ==
    LET sel == SelectSeq(log, LAMBDA e : e.event = name)
    IN  [i \in DOMAIN sel |-> sel[i].data.phase_name]

\* The phase that is open at position k of log: the one started last.
LastStarted(log, k) ==
    LET before == {i \in Positions(log, "phase_started") : i < k}
    IN  CHOOSE i \in before : \A j \in before : j <= i

(***************************************************************************)
(* C1.  In every run of run_deliberation the phase numbers of the          *)
(* phase_started events strictly increase; a phase is started only after   *)
(* every phase with a smaller number has emitted phase_completed; and an   *)
(* agent is invoked only inside a phase that has started and has not yet   *)
(* completed.                                                              *)
(***************************************************************************)
PhasesInOrder ==
    \A r \in RunIds :
        LET log == events[r]
        IN  /\ \A i, j \in Positions(log, "phase_started") :
                   i < j => log[i].data.phase < log[j].data.phase
            /\ \A i \in Positions(log, "phase_started") :
                   \A q \in 1..(log[i].data.phase - 1) :
                       \E j \in PhaseAt(log, "phase_completed", q) : j < i
            /\ \A k \in Positions(log, "agent_started") :
                   /\ \E i \in Positions(log, "phase_started") : i < k
                   /\ \A j \in PhaseAt(log, "phase_completed",
                                       log[LastStarted(log, k)].data.phase) : j > k

\* A run has gone through five phases and waits for the announcement of
\* the sixth.
RunAwaitsAnnouncement ==
    \E r \in RunIds :
        /\ runs[r].pc = "results"
        /\ PhaseAt(events[r], "phase_started", 6) # {}
        /\ PhaseAt(events[r], "phase_completed", 5) # {}

(***************************************************************************)
(* C2.  As the specification states it: a run that ends successfully has   *)
(* started eight phases, Turn Management Setup the third of them.          *)
(***************************************************************************)
EightPhaseNames ==
    <<"Initialization", "Problem Statement", "Turn Management Setup",
      "Research & Analysis", "Structured Debate", "Democratic Voting",
      "Results Analysis", "Final Report">>

SevenPhaseNames ==
    <<"Initialization", "Problem Statement", "Research & Analysis",
      "Structured Debate", "Democratic Voting", "Results Analysis",
      "Final Report">>

NumDomainExperts(r) == Len(DomainExperts(runs[r].agents))

\* The rounds run r has begun.
RoundsExecuted(r) == Cardinality(Positions(events[r], "debate_round_started"))

\* Whether phase_debate of run r has finished.
DebateFinished(r) == PhaseAt(events[r], "phase_completed", 4) # {}

\* The arguments of round q in history, in order.
RoundArguments(history, q) ==
    LET sel == SelectSeq(history, LAMBDA h : h.round = q)
    IN  [i \in DOMAIN sel |-> sel[i].argument]

\* The consensus score of the arguments of round q.
RoundScore(history, q) == _assess_consensus(RoundArguments(history, q))

(***************************************************************************)
(* C3.  phase_debate begins at most 3 rounds whatever the agents answer.   *)
(* While it runs, every round it has left behind scored below 70.  When    *)
(* it has finished after n rounds, every round q < 3 among them scored     *)
(* >= 70 exactly if q = n: it stopped after a round before the third if    *)
(* and only if that round scored >= 70, and rounds 1 and 2 below 70 give   *)
(* exactly 3 rounds.                                                       *)
(***************************************************************************)
DebateRoundsBounded ==
    \A r \in RunIds :
        LET n == RoundsExecuted(r)
            history == runs[r].debate_history
        IN  /\ n <= 3
            /\ runs[r].round_num <= 3
            /\ ~DebateFinished(r) =>
                   \A q \in 1..(n - 1) : RoundScore(history, q) < 70
            /\ DebateFinished(r) =>
                   /\ \A q \in 1..n : q < 3 => (RoundScore(history, q) >= 70 <=> q = n)
                   /\ (\A q \in 1..2 : q <= n => RoundScore(history, q) < 70) => n = 3

\* A debate stopped after its first round on a score of exactly 70.
DebateStoppedAtThreshold ==
    \E r \in RunIds :
        /\ DebateFinished(r)
        /\ RoundsExecuted(r) = 1
        /\ RoundScore(runs[r].debate_history, 1) = 70

(***************************************************************************)
(* C4.  The debate history of a run is append-only: a step leaves it as    *)
(* it is or adds one entry at its end, never changing or removing an       *)
(* entry.  Entry i is the argument of round ((i-1) div N) + 1 by the       *)
(* domain expert at place ((i-1) mod N) + 1 of the invocation order, N     *)
(* the number of domain experts, so that the entries are ordered by round  *)
(* and within a round by invocation; when a round is complete the history  *)
(* holds N entries for it and for each round before it.                    *)
(***************************************************************************)
HistoryOrdered(run) ==
    LET experts == DomainExperts(run.agents)
        N == Len(experts)
        history == run.debate_history
    IN  /\ \A i \in DOMAIN history :
               /\ history[i].round = ((i - 1) \div N) + 1
               /\ history[i].agent_id = experts[((i - 1) % N) + 1]
        /\ run.pc = "debate" =>
               Len(history) = (run.round_num - 1) * N + (run.idx - 1)

DebateHistoryAppendOnly ==
    [][\A r \in DOMAIN runs' :
           LET new == runs'[r].debate_history
               old == IF r \in DOMAIN runs THEN runs[r].debate_history ELSE <<>>
           IN  /\ Len(old) <= Len(new)
               /\ Len(new) <= Len(old) + 1
               /\ SubSeq(new, 1, Len(old)) = old
               /\ HistoryOrdered(runs'[r])]_vars

\* The second round of a debate is about to begin: the history holds the
\* N arguments of the first.
SecondRoundBegins ==
    \E r \in RunIds :
        /\ runs[r].pc = "debate"
        /\ runs[r].round_num = 2
        /\ runs[r].idx = 1
        /\ Len(runs[r].debate_history) = NumDomainExperts(r)

(***************************************************************************)
(* C5.  When phase_debate has finished with N domain experts, the record   *)
(* it stored has rounds = the number of rounds run, a history of           *)
(* rounds x N entries, and consensus_reached true exactly if the loop      *)
(* stopped before the third round on a score >= 70.  A first round that    *)
(* scores >= 70 gives rounds = 1, consensus_reached and N entries; rounds  *)
(* 1 and 2 below 70 give rounds = 3, no consensus and 3N entries.          *)
(***************************************************************************)
DebateRecordFaithful ==
    \A r \in RunIds :
        DebateFinished(r) =>
            /\ "debate" \in DOMAIN ds_results
            /\ LET debate == ds_results["debate"]
                   N == NumDomainExperts(r)
               IN  /\ debate.rounds = RoundsExecuted(r)
                   /\ debate.history = runs[r].debate_history
                   /\ Len(debate.history) = debate.rounds * N
                   /\ debate.consensus_reached <=>
                          /\ debate.rounds < 3
                          /\ RoundScore(debate.history, debate.rounds) >= 70
                   /\ RoundScore(debate.history, 1) >= 70 =>
                          /\ debate.rounds = 1
                          /\ debate.consensus_reached
                          /\ Len(debate.history) = N
                   /\ (\A q \in 1..2 : q <= debate.rounds
                                           => RoundScore(debate.history, q) < 70) =>
                          /\ debate.rounds = 3
                          /\ ~debate.consensus_reached
                          /\ Len(debate.history) = 3 * N

\* A debate in which every argument only disagreed ran three rounds and
\* was recorded without consensus.
DebateRanToTheCap ==
    \E r \in RunIds :
        /\ DebateFinished(r)
        /\ "debate" \in DOMAIN ds_results
        /\ ds_results["debate"].rounds = 3
        /\ ~ds_results["debate"].consensus_reached
        /\ \A i \in DOMAIN runs[r].debate_history :
               runs[r].debate_history[i].argument = TxtHowever

(***************************************************************************)
(* C6.  When an agent invocation raises in a run, the log of the run ends  *)
(* with one deliberation_error event that carries the message of the       *)
(* exception: the run has returned, so that no agent is invoked, none is   *)
(* retried and no phase starts after it; the session has status 'error'    *)
(* and holds the message as its results.  A run that has returned ended    *)
(* with either that event or deliberation_complete, never both.            *)
(***************************************************************************)
ErrorAbortsRun ==
    \A r \in RunIds :
        LET log == events[r]
            errors == Positions(log, "deliberation_error")
            s == runs[r].session
        IN  /\ Cardinality(errors) <= 1
            /\ runs[r].pc = "returned" =>
                   Cardinality(errors)
                       + Cardinality(Positions(log, "deliberation_complete")) = 1
            /\ errors # {} =>
                   /\ errors = {Len(log)}
                   /\ runs[r].pc = "returned"
                   /\ log[Len(log)].data.error \in ErrorMessages
                   /\ log[Len(log) - 1].event = "agent_started"
                   /\ active_sessions[s].status = "error"
                   /\ SessionResults(s) = [error |-> log[Len(log)].data.error]

\* A kickoff of the debate raised.
DebateKickoffRaised ==
    \E r \in RunIds :
        /\ Positions(events[r], "deliberation_error") # {}
        /\ PhaseAt(events[r], "phase_started", 4) # {}
        /\ PhaseAt(events[r], "phase_completed", 4) = {}

(***************************************************************************)
(* C7.  The results of a completed session hold only what the runs of      *)
(* that session wrote: every key of the results map the session stores     *)
(* on completion was last written on behalf of that session.               *)
(***************************************************************************)
SessionResultsIsolated ==
    \A s \in DOMAIN active_sessions :
        active_sessions[s].status = "completed" =>
            \A k \in DOMAIN SessionResults(s) : results_owner[k] = s

(***************************************************************************)
(* C8.  At most one run is ever started for a session: no two tasks made   *)
(* by start_deliberation are for the same session id.                      *)
(***************************************************************************)
OneRunPerSession ==
    \A r1, r2 \in RunIds : runs[r1].session = runs[r2].session => r1 = r2

(***************************************************************************)
(* C9.  The status of a session changes only from initializing to          *)
(* running and from running to completed or to error; a status of          *)
(* completed or error is never changed by a later step.                    *)
(***************************************************************************)
StatusMovesForward ==
    [][\A s \in DOMAIN active_sessions :
           LET old == active_sessions[s].status
               new == active_sessions'[s].status
           IN  old # new =>
                   <<old, new>> \in {<<"initializing", "running">>,
                                     <<"running", "completed">>,
                                     <<"running", "error">>}]_vars

(***************************************************************************)
(* C10.  In the events emitted to the room of one session, no agent is     *)
(* started while another agent that was started has not completed, and     *)
(* no phase is started while another phase is open: agent events do not    *)
(* interleave across agents and each lies inside its own phase.            *)
(***************************************************************************)
AgentEventsSequential ==
    \A s \in DOMAIN active_sessions :
        /\ Cardinality(open_agents[s]) <= 1
        /\ Cardinality(open_phases[s]) <= 1

(***************************************************************************)
(* Reading the announcement of a run.                                      *)
(***************************************************************************)
\* Whether phase_results of run r has recorded its decision.
ResultsAnnounced(r) == Positions(events[r], "results_announced") # {}

\* The event named name that run r emitted once.
TheEvent(r, name) ==
    events[r][CHOOSE i \in Positions(events[r], name) : TRUE]

\* Whether text holds word in any letter case.
ContainsAnyCase(text, word) == Contains(Upper(text), Upper(word))

(***************************************************************************)
(* C11.  Whenever the coordinator's output holds "REJECTED" in any letter  *)
(* case, the final decision phase_results records is REJECTED; whenever    *)
(* it holds neither "APPROVE" nor "REJECT", the decision is CONDITIONAL.   *)
(***************************************************************************)
RejectedAnnouncementIsRejected ==
    \A r \in RunIds :
        ResultsAnnounced(r) =>
            LET out == ds_results["final_announcement"]
                decision == ds_results["final_decision"]
            IN  /\ ContainsAnyCase(out, TxtREJECTED) => decision = "REJECTED"
                /\ (~ContainsAnyCase(out, TxtAPPROVE)
                        /\ ~ContainsAnyCase(out, TxtREJECT))
                       => decision = "CONDITIONAL"

(***************************************************************************)
(* C12.  The final decision phase_results records is one of APPROVED,      *)
(* REJECTED, CONDITIONAL: APPROVED if the coordinator's output holds       *)
(* "APPROVE" in any letter case, otherwise REJECTED if it holds "REJECT",  *)
(* otherwise CONDITIONAL; and the results, the results_announced event     *)
(* and the phase_completed event of phase 6 carry the same label.          *)
(***************************************************************************)
DecisionFromScan ==
    \A r \in RunIds :
        ResultsAnnounced(r) =>
            LET out == ds_results["final_announcement"]
                decision == ds_results["final_decision"]
            IN  /\ decision \in {"APPROVED", "REJECTED", "CONDITIONAL"}
                /\ decision =
                       IF ContainsAnyCase(out, TxtAPPROVE) THEN "APPROVED"
                       ELSE IF ContainsAnyCase(out, TxtREJECT) THEN "REJECTED"
                       ELSE "CONDITIONAL"
                /\ TheEvent(r, "results_announced").data.decision = decision
                /\ TheEvent(r, "results_announced").data.announcement = out
                /\ \A i \in PhaseAt(events[r], "phase_completed", 6) :
                       events[r][i].data.final_decision = decision
                /\ PhaseAt(events[r], "phase_completed", 6) # {}

\* The coordinator announced "Motion to reject" and the decision recorded
\* is REJECTED.
LowercaseRejectAnnounced ==
    \E r \in RunIds :
        /\ ResultsAnnounced(r)
        /\ ds_results["final_announcement"] = TxtToReject
        /\ ds_results["final_decision"] = "REJECTED"

(***************************************************************************)
(* Reading a call.                                                         *)
(***************************************************************************)
\* Whether a call of fn has returned.
Returned(fn) == call.fn = fn /\ call.state = "returned"

\* The words of text: its maximal runs of letters, in lower case.
Words(text) ==
    LET s == Lower(text)
        letter(i) == i \in DOMAIN s /\ IsLetter(s[i])
    IN  {SubSeq(s, i, j) : <<i, j>> \in
            {p \in (DOMAIN s) \X (DOMAIN s) :
                /\ p[1] <= p[2]
                /\ \A k \in p[1]..p[2] : letter(k)
                /\ ~letter(p[1] - 1)
                /\ ~letter(p[2] + 1)}}

(***************************************************************************)
(* C13.  _assess_consensus returns an integer from 0 to 100 for every      *)
(* list of argument texts, the empty list included, whatever agreement     *)
(* and disagreement keywords the texts hold.                               *)
(***************************************************************************)
ConsensusInRange ==
    Returned("_assess_consensus") =>
        /\ call.result \in Int
        /\ 0 <= call.result
        /\ call.result <= 100

\* The score of an empty round came back, and so did the score of a round
\* of agreement alone.
ConsensusScored ==
    /\ Returned("_assess_consensus")
    /\ \/ call.arguments = <<>> /\ call.result = 0
       \/ Len(call.arguments) = MaxArguments
              /\ \A i \in DOMAIN call.arguments : call.arguments[i] = TxtAgree
              /\ call.result = 100

(***************************************************************************)
(* C14.  The score of a single argument text: 100 if of the keywords it    *)
(* holds only agreement keywords, 0 if it holds only disagreement          *)
(* keywords (so for a text whose one keyword is the word "disagree"), and  *)
(* 0 if it holds neither.                                                  *)
(***************************************************************************)
SingleArgumentScore ==
    (Returned("_assess_consensus") /\ Len(call.arguments) = 1) =>
        LET words == Words(call.arguments[1])
            agrees == \E i \in DOMAIN agreement_keywords :
                          agreement_keywords[i] \in words
            disagrees == \E i \in DOMAIN disagreement_keywords :
                             disagreement_keywords[i] \in words
        IN  /\ (agrees /\ ~disagrees) => call.result = 100
            /\ (disagrees /\ ~agrees) => call.result = 0
            /\ (~agrees /\ ~disagrees) => call.result = 0

(***************************************************************************)
(* C15.  For every agent of every phase one outcome is recorded, and it    *)
(* is validated text: what extract_policy_content makes of the agent's     *)
(* output when the validator accepts the output, the fallback for the      *)
(* agent and topic when it rejects it.  Stated of the research results and *)
(* of the debate history of every run.                                     *)
(***************************************************************************)
ValidatedText(out, agent_role, policy_topic) ==
    IF is_valid_policy_output(out).is_valid
    THEN extract_policy_content(out)
    ELSE create_fallback_response(agent_role, policy_topic)

RecordedOutcomesValidated ==
    \A r \in RunIds :
        LET log == events[r]
            research == runs[r].research_results
            history == runs[r].debate_history
        IN  /\ \A a \in DOMAIN research :
                   LET done == {i \in Positions(log, "agent_completed") :
                                   /\ log[i].data.agent_id = a
                                   /\ "progress" \in DOMAIN log[i].data}
                   IN  /\ Cardinality(done) = 1
                       /\ \A i \in done :
                              research[a] =
                                  ValidatedText(log[i].data.output, AgentName(a),
                                                Topic(r))
            /\ \A i \in DOMAIN history :
                   history[i].argument =
                       ValidatedText(history[i].argument,
                                     AgentName(history[i].agent_id), Topic(r))

(***************************************************************************)
(* C16: is_valid_policy_output accepts a text exactly when the text has at *)
(* least 50 characters, matches none of the code patterns, contains fewer  *)
(* than 3 of the code keywords and contains at least 2 of the policy       *)
(* keywords; a text that misses any one of the four is rejected.           *)
(***************************************************************************)
MatchesCodePattern(text) ==
    \E p \in DOMAIN CODE_PATTERNS : Search(CODE_PATTERNS[p], text)

AcceptedIffFourConditions ==
    Returned("is_valid_policy_output") =>
        (call.result.is_valid <=>
            /\ Len(call.output) >= 50
            /\ ~MatchesCodePattern(call.output)
            /\ CountKeywords(CODE_KEYWORDS, Lower(call.output)) < 3
            /\ CountKeywords(policy_keywords, Lower(call.output)) >= 2)

\* A text of exactly 50 characters, or one with two code keywords, has been
\* accepted.
BoundaryTextAccepted ==
    /\ Returned("is_valid_policy_output")
    /\ call.result.is_valid
    /\ \/ Len(call.output) = 50
       \/ CountKeywords(CODE_KEYWORDS, Lower(call.output)) = 2

(***************************************************************************)
(* C17: is_valid_policy_output rejects the empty text and every text of    *)
(* fewer than 50 characters with the reason "Output too short", whatever   *)
(* patterns and keywords the text contains.                                *)
(***************************************************************************)
ShortTextTooShort ==
    (Returned("is_valid_policy_output") /\ Len(call.output) < 50) =>
        call.result = [is_valid |-> FALSE, reason |-> "Output too short"]

\* A short text with a code fence and three code keywords, or one of 49
\* characters that passes every other check, has been rejected.
ShortCodeTextRejected ==
    /\ Returned("is_valid_policy_output")
    /\ ~call.result.is_valid
    /\ \/ /\ Len(call.output) < 50
          /\ Contains(call.output, Fence)
          /\ CountKeywords(CODE_KEYWORDS, Lower(call.output)) >= 3
       \/ /\ Len(call.output) = 49
          /\ ~MatchesCodePattern(call.output)
          /\ CountKeywords(CODE_KEYWORDS, Lower(call.output)) = 0
          /\ CountKeywords(policy_keywords, Lower(call.output)) >= 2

(***************************************************************************)
(* C18: is_valid_policy_output rejects every text of at least 50           *)
(* characters that contains a fenced code block, an opening fence at the   *)
(* start of a line and a closing fence at the start of a later line, and   *)
(* the reason it gives is the code-pattern one.                            *)
(***************************************************************************)
FenceLines(text) ==
    {i \in DOMAIN text :
        /\ i + 2 <= Len(text)
        /\ SubSeq(text, i, i + 2) = Fence
        /\ i = 1 \/ text[i - 1] = "\n"}

HasFencedBlock(text) ==
    \E i, j \in FenceLines(text) :
        /\ i + 3 <= j
        /\ \E k \in (i + 3)..(j - 1) : text[k] = "\n"

FencedBlockRejected ==
    (/\ Returned("is_valid_policy_output")
     /\ Len(call.output) >= 50
     /\ HasFencedBlock(call.output)) =>
        call.result = [is_valid |-> FALSE, reason |-> "Contains code pattern"]

(***************************************************************************)
(* C19: a kickoff whose inputs have no mode, or a mode that is none of     *)
(* full, quick, research_only and debate_only, goes through the same       *)
(* phases and returns a result of the same shape as a kickoff with mode    *)
(* full in which the crews behave the same way.  The kickoffs compared are *)
(* two successive ones on the same object.                                 *)
(***************************************************************************)
KnownModes == {"full", "quick", "research_only", "debate_only"}

Finished(k) == k.pc = "returned"

HasMode(k, mode) ==
    /\ ~k.inputs.is_none
    /\ "mode" \in DOMAIN k.inputs.dict
    /\ k.inputs.dict["mode"] = mode

OutsideKnownModes(k) == \A mode \in KnownModes : ~HasMode(k, mode)

SameCourse(k1, k2) ==
    /\ k1.executed = k2.executed
    /\ k1.result = k2.result

UnknownModeRunsFull ==
    \A pair \in {<<uagent.kick, uagent.previous>>,
                 <<uagent.previous, uagent.kick>>} :
        (/\ Finished(pair[1]) /\ Finished(pair[2])
         /\ OutsideKnownModes(pair[1])
         /\ HasMode(pair[2], "full")
         /\ pair[1].raised_in = pair[2].raised_in)
            => SameCourse(pair[1], pair[2])

\* A kickoff with mode "turbo", or one without inputs, has returned its
\* dict right after a kickoff with mode "full" that returned one.
UnknownModeAfterFull ==
    /\ Finished(uagent.kick) /\ Finished(uagent.previous)
    /\ HasMode(uagent.previous, "full")
    /\ uagent.previous.result.kind = "dict"
    /\ uagent.kick.result.kind = "dict"
    /\ HasMode(uagent.kick, "turbo") \/ uagent.kick.inputs.is_none

(***************************************************************************)
(* C20 as stated: a kickoff with mode quick in which no phase raises goes  *)
(* through the phases of the full workflow in the same order with only     *)
(* the debate phase left out, the turn management setup included.          *)
(***************************************************************************)
FullWithout(phases) ==
    LET Kept(phase) == phase \notin phases
    IN  SelectSeq(run_full_deliberation, Kept)

IsPrefix(s, t) == Len(s) <= Len(t) /\ s = SubSeq(t, 1, Len(s))

QuickOmitsOnlyDebate ==
    (/\ uagent.pc # "idle"
     /\ HasMode(uagent.kick, "quick")
     /\ uagent.kick.raised_in = "none") =>
        /\ IsPrefix(uagent.kick.executed, FullWithout({"run_debate_phase"}))
        /\ Finished(uagent.kick) =>
               uagent.kick.executed = FullWithout({"run_debate_phase"})

(***************************************************************************)
(* C20 amended: a kickoff with mode quick in which no phase raises goes    *)
(* through the phases of the full workflow in the same order with the      *)
(* turn management setup and the debate phase left out.                    *)
(***************************************************************************)
QuickOmitsSetupAndDebate ==
    (/\ uagent.pc # "idle"
     /\ HasMode(uagent.kick, "quick")
     /\ uagent.kick.raised_in = "none") =>
        /\ IsPrefix(uagent.kick.executed,
                    FullWithout({"run_turn_management_setup", "run_debate_phase"}))
        /\ Finished(uagent.kick) =>
               uagent.kick.executed =
                   FullWithout({"run_turn_management_setup", "run_debate_phase"})

\* A kickoff with mode quick has returned its dict.
QuickReturned ==
    /\ uagent.pc = "returned"
    /\ HasMode(uagent.kick, "quick")
    /\ uagent.kick.result.kind = "dict"

(***************************************************************************)
(* C21: once initialize_agents has run, every catalog entry has exactly    *)
(* one agent instance and exactly one agent_created event; and when some   *)
(* catalog entry has no constructor, the run is aborted in the             *)
(* Initialization phase: the Problem Statement phase is never started and  *)
(* the session ends with status error.                                     *)
(***************************************************************************)
CreatedEvents(log, a) ==
    {i \in Positions(log, "agent_created") : log[i].data.agent_id = a}

Instances(agents, a) == {j \in DOMAIN agents : agents[j] = a}

ReceivedOnlyAfterSubscribing ==
    \A c \in Clients :
        \A i \in DOMAIN sio.inbox[c] :
            LET m == sio.inbox[c][i]
            IN  m.session \in SessionIds =>
                    /\ m.session \in sio.rooms[c]
                    /\ m.seq > sio.entered_at[c][m.session]
                    /\ \A j \in DOMAIN sio.inbox[c] :
                           (j < i /\ sio.inbox[c][j].session = m.session) =>
                               sio.inbox[c][j].seq < m.seq

\* A client subscribed while the run of the session was under way and has
\* received a later event of the run, and a session it did not subscribe to
\* has emitted events.
SubscribedDuringRun ==
    \E c \in Clients, s \in SessionIds, t \in SessionIds :
        /\ s \in sio.rooms[c]
        /\ sio.entered_at[c][s] > 3
        /\ \E i \in DOMAIN sio.inbox[c] :
               /\ sio.inbox[c][i].session = s
               /\ sio.inbox[c][i].event = "phase_completed"
        /\ t # s
        /\ sio.emitted[t] > 0

(***************************************************************************)
(* C30: an exception the emitter raises for an event never leaves          *)
(* emit_event. The session has status 'error' only when a kickoff raised   *)
(* and run_deliberation handed deliberation_error to emit_event, and every *)
(* step of the run, whether the emitter raised in it or not, changes the   *)
(* sessions, the results, the event log and the position of the run as the *)
(* same step of a run whose emitter never raises: the same phases and the  *)
(* same agent invocations follow.                                          *)
(***************************************************************************)
service_state ==
    <<active_sessions, runs, ds_results, ds_agents, results_owner, events,
      service_events, open_agents, open_phases>>

StepWithoutEmitter ==
    \/ \E topic \in Topics : create_session(topic, <<>>)
    \/ \E s \in SessionIds : start_deliberation(s)
    \/ \E r \in RunIds : RunStarts(r)
    \/ \E r \in RunIds, out \in ServicePolicyOutputs : ProblemStatementReturns(r, out)
    \/ \E r \in RunIds, out \in ServicePolicyOutputs : ResearchReturns(r, out)
    \/ \E r \in RunIds, out \in ServiceDebateOutputs : DebateReturns(r, out)
    \/ \E r \in RunIds, out \in VoteOutputs : VotingReturns(r, out)
    \/ \E r \in RunIds, out \in ServiceAnnouncementOutputs : ResultsReturns(r, out)
    \/ \E r \in RunIds, message \in ErrorMessages : KickoffRaises(r, message)

ErrorOnlyAfterKickoffRaised ==
    \A r \in DOMAIN runs :
        active_sessions[runs[r].session].status = "error" =>
            \E i \in DOMAIN events[r] :
                /\ events[r][i].event = "deliberation_error"
                /\ events[r][i].data.error \in ErrorMessages

EmitFailuresSwallowed ==
    /\ [](~sio.escaped /\ ErrorOnlyAfterKickoffRaised)
    /\ [][StepWithoutEmitter]_service_state

\* The emitter raised for an event of the run, and the run went on to its
\* end: the session is completed and has the results.
CompletedAfterEmitterRaised ==
    \E r \in DOMAIN runs :
        /\ sio.raised # <<>>
        /\ sio.raised[1] \in {"agent_started", "agent_completed", "phase_started"}
        /\ runs[r].pc = "returned"
        /\ active_sessions[runs[r].session].status = "completed"
        /\ "final_report" \in DOMAIN SessionResults(runs[r].session)

\* The run has failed: run_deliberation has handed deliberation_error to
\* emit_event and the task has returned.
Failed(r) ==
    /\ r \in DOMAIN runs
    /\ runs[r].pc = "returned"
    /\ Positions(events[r], "deliberation_error") # {}

\* Whether a response of the API carries the text message in a field for it.
CarriesError(response, message) ==
    \/ "error" \in DOMAIN response /\ response.error = message
    \/ /\ "results" \in DOMAIN response
       /\ Get(response.results, "error", <<>>) = message

(***************************************************************************)
(* C23: once the run of a session has failed, the session fetched by id    *)
(* and the session's entry in the list of sessions have status 'error' and *)
(* carry the error message of the failure.                                 *)
(***************************************************************************)
ReadsReportTheFailure ==
    \A r \in RunIds :
        Failed(r) =>
            LET s == runs[r].session
                message == TheEvent(r, "deliberation_error").data.error
            IN  /\ get_session(s).status = "error"
                /\ CarriesError(get_session(s), message)
                /\ list_sessions[s].status = "error"
                /\ CarriesError(list_sessions[s], message)

(***************************************************************************)
(* C27: while a run executes phase p, the session fetched through the API  *)
(* has current_phase p and the name of that phase; once the run is past    *)
(* Initialization the two fields no longer have their creation values.     *)
(***************************************************************************)
CurrentPhaseFollowsRun ==
    \A r \in RunIds :
        (r \in DOMAIN runs /\ runs[r].pc \in AwaitingKickoff) =>
            LET log == events[r]
                started == log[LastStarted(log, Len(log) + 1)].data
                response == get_session(runs[r].session)
            IN  /\ response.current_phase = started.phase
                /\ response.phase_name = started.phase_name
                /\ response.current_phase # 0
                /\ response.phase_name # "Initialization"

(***************************************************************************)
(* C28: the output that an agent_completed event of the Problem Statement  *)
(* or of the Research phase carries is a prefix of the text recorded for   *)
(* that agent, which is the fallback text when the validator rejected the  *)
(* raw output.                                                             *)
(***************************************************************************)
CompletedEventsCarryRecordedText ==
    \A r \in RunIds :
        r \in DOMAIN runs =>
            \A i \in Positions(events[r], "agent_completed") :
                LET data == events[r][i].data
                    recorded ==
                        IF data.agent_id = "problem_statement"
                        THEN ds_results.problem_statement
                        ELSE runs[r].research_results[data.agent_id]
                IN  LastStarted(events[r], i) \in
                        PhaseAt(events[r], "phase_started", 2)
                            \cup PhaseAt(events[r], "phase_started", 3)
                    => data.output = Truncate(recorded, EventOutputLen)

(***************************************************************************)
(* C25: the task the voting coordinator gets in phase_results carries the  *)
(* votes of the Voting phase: every vote recorded for the session is part  *)
(* of the summary in the task description.                                 *)
(***************************************************************************)
CoordinatorTaskCarriesVotes ==
    \A r \in RunIds :
        (r \in DOMAIN runs /\ runs[r].pc = "results") =>
            LET votes == runs[r].voting_results
            IN  /\ votes = ds_results.voting
                /\ \A a \in DOMAIN votes :
                       Contains(CoordinationTask(r).votes_summary, votes[a])

(***************************************************************************)
(* C26: in the report of phase_final_report research_count is the number   *)
(* of research results, debate_count the number of contributions in the    *)
(* debate history, votes_count the number of votes, and final_decision the *)
(* decision the Results phase recorded; the phase invokes no agent.        *)
(***************************************************************************)
ReportCountsRecordedItems ==
    \A r \in RunIds :
        (r \in DOMAIN runs /\ Positions(events[r], "report_generated") # {}) =>
            LET report == ds_results.final_report
                log == events[r]
                generated == CHOOSE i \in Positions(log, "report_generated") : TRUE
            IN  /\ report.research_count = Cardinality(DOMAIN ds_results.research)
                /\ report.debate_count = Len(ds_results.debate.history)
                /\ report.votes_count = Cardinality(DOMAIN ds_results.voting)
                /\ report.final_decision = ds_results.final_decision
                /\ \A i \in Positions(log, "agent_started") :
                       LastStarted(log, i) \notin PhaseAt(log, "phase_started", 7)

\* The positions of log that hold deliberation_complete or
\* deliberation_error.
Terminal(log) ==
    Positions(log, "deliberation_complete") \cup Positions(log, "deliberation_error")

(***************************************************************************)
(* C29: a run that has ended has emitted exactly one of                    *)
(* deliberation_complete and deliberation_error, as its last event;        *)
(* deliberation_complete comes after phase_completed of phase 7; and the   *)
(* session has status 'completed' exactly when its run emitted             *)
(* deliberation_complete, 'error' exactly when it emitted                  *)
(* deliberation_error.                                                     *)
(***************************************************************************)
OneTerminalEventAndStatus ==
    \A r \in RunIds :
        r \in DOMAIN runs =>
            LET log == events[r]
                status == active_sessions[runs[r].session].status
            IN  /\ Cardinality(Terminal(log)) <= 1
                /\ Terminal(log) \subseteq {Len(log)}
                /\ runs[r].pc = "returned" <=> Terminal(log) # {}
                /\ \A i \in Positions(log, "deliberation_complete") :
                       \E j \in PhaseAt(log, "phase_completed", 7) : j < i
                /\ runs[r].pc = "returned" =>
                       /\ status = "completed"
                              <=> Positions(log, "deliberation_complete") # {}
                       /\ status = "error"
                              <=> Positions(log, "deliberation_error") # {}

(***************************************************************************)
(* C24: the context _build_debate_context returns for a debate invocation  *)
(* holds at most 5 entries of the debate history: the last min(5, k) of    *)
(* the k entries the history has at that moment, in the order of the       *)
(* history, each with its agent name, its round and the first 300          *)
(* characters of its argument; for the first invocation of round 1, when   *)
(* the history is empty, it holds no entry.                                *)
(***************************************************************************)
ContextIsLastFive ==
    Returned("_build_debate_context") =>
        LET history == call.debate_history
            k == Len(history)
            parts == call.result.context_parts
            n == Len(parts)
        IN  /\ n <= 5
            /\ n = Min(5, k)
            /\ \A i \in 1..n :
                   LET arg == history[k - n + i]
                   IN  /\ parts[i].agent_name = arg.agent_name
                       /\ parts[i].round = arg.round
                       /\ parts[i].argument =
                              Truncate(arg.argument, 300) \o <<".", ".", ".">>
            /\ k = 0 => call.result.message = TxtNoPreviousArguments
            /\ k > 0 => call.result.message = <<>>

\* A context was built in a later round from a history of more than five
\* entries, one of them with an argument that was cut to 300 characters.
ContextOfLongHistory ==
    /\ Returned("_build_debate_context")
    /\ Len(call.debate_history) > 5
    /\ call.current_round > 1
    /\ Len(call.result.context_parts) = 5
    /\ \E i \in DOMAIN call.result.context_parts :
           /\ Len(call.result.context_parts[i].argument) = 303
           /\ Len(call.debate_history[Len(call.debate_history) - 5 + i].argument) > 300
====
